---- MODULE Spec2Model ----
(***************************************************************************)
(* A model of the tbc indexer of heminetwork: the level store              *)
(* (database/tbcd/level/level.go) and the service that drives it           *)
(* (service/tbc/tbc.go).                                                   *)
(*                                                                         *)
(* A block hash is a small integer; hash 0 is the genesis hash.  A raw     *)
(* 80-byte header is identified with the hash it hashes to, and the only   *)
(* field the service parses out of it is PrevBlock.                        *)
(***************************************************************************)
EXTENDS Integers, Sequences, FiniteSets, TLC

\* ------------------------------------------------------------------ bounds
\* Block hashes are 0..MaxHash.
MaxHash == 3
\* Longest headers message a peer sends.
MaxBatch == 2
\* Number of store commits that may fail in one behaviour.
MaxFaults == 1
\* Number of handler goroutines in flight at once (go s.handleHeaders).
MaxHandlers == 2
\* Peer sessions that feed the chain manager are 1..MaxPeers.
MaxPeers == 2
\* Calls of Run that may overlap.
MaxRunners == 2

\* ------------------------------------------------------- the chain of headers
\* s.chainParams.GenesisHash
GenesisHash == 0

Hashes == 0..MaxHash

\* The all-zero hash, PrevBlock of the genesis header: never a block hash.
ZeroHash == MaxHash + 1

\* msg.Headers[k].PrevBlock: the header tree the peers serve.  Hash 1 and
\* hash 3 are forks of height 1 and hash 2 is the child of hash 1, so the
\* order of the hashes is not the order of the heights.
PrevBlock(h) ==
    IF h = GenesisHash THEN ZeroHash
    ELSE IF h % 2 = 0 THEN h - 1
    ELSE IF h = 1 THEN GenesisHash ELSE h - 3

\* A headers message: msg.Headers, each header named by its hash.
HeaderMsgs == UNION {[1..n -> Hashes] : n \in 0..MaxBatch}

\* The sessions that feed the chain manager, and the sessions that race to
\* insert genesis (one more, so that a third caller meets the latch).
Peers == 1..MaxPeers
Callers == 1..(MaxPeers + 1)
Handlers == 1..MaxHandlers

\* The calls of Run the embedding program makes.
Runners == 1..MaxRunners

\* ------------------------------------------------------------------ state
VARIABLES
    pool,                \* l.pool: the three namespaces of the level store
    faults,              \* number of commits that failed so far
    hnd,                 \* the handler goroutines of the chain manager
    conn,                \* p.conn of each session: "nil", "open" or "closed"
    mtx,                 \* s.mtx: 0 when free, else the task that holds it
    insertedGenesis,     \* s.insertedGenesis
    genesisBlockHeader,  \* the package variable genesisBlockHeader
    bpc,                 \* where each caller of blockHeadersBest is
    bres,                \* what each caller of blockHeadersBest returned
    lastOp,              \* the last store call: arguments, result, store before
    partial,             \* a store call ended between two of its commits
    intr,                \* the last interrupted BlockInsert, if none followed
    peers,               \* s.peers: the addresses in the active-peers map
    blocks,              \* s.blocks: the pending-blocks map
    now,                 \* time.Now(), in ticks of the clock
    isRunning,           \* s.isRunning
    run,                 \* where each call of Run is
    ctx,                 \* the context of the Run in progress
    wg,                  \* s.wg: the tasks Run waits for
    pm,                  \* the peerManager goroutine
    sess,                \* the peerConnect goroutine of each address
    peerC,               \* the addresses queued on peerC
    ping                 \* pingAllPeers goroutines in flight

storeVars == <<pool, faults>>
chainVars == <<hnd, conn>>
genVars == <<mtx, insertedGenesis, genesisBlockHeader, bpc, bres>>
histVars == <<lastOp, partial, intr>>
schedVars == <<peers, blocks, now>>
runVars == <<isRunning, run, ctx, wg, pm, sess, peerC, ping>>
vars == <<pool, faults, hnd, conn, mtx, insertedGenesis, genesisBlockHeader, bpc,
          bres, lastOp, partial, intr, peers, blocks, now, isRunning, run,
          ctx, wg, pm, sess, peerC, ping>>

\* --------------------------------------------------------------- the store
\* level.New: the namespaces start empty.  BlockHeadersDB maps a hash to its
\* record, bhsLastKey is the value under the key "last" (a sequence of at
\* most one record), BlocksMissingDB is its set of keys (the values are
\* empty), BlocksDB maps a hash to the block body.
New ==
    [BlockHeadersDB |-> [h \in {} |-> h], bhsLastKey |-> <<>>,
     BlocksMissingDB |-> {}, BlocksDB |-> {}, PeersDB |-> {}]

\* tbcd.BlockHeader
BlockHeader(hash, height) == [Hash |-> hash, Height |-> height, Header |-> hash]

\* Width of the hash part of a BlocksMissing key.
HashSpace == MaxHash + 1

\* heightHashToKey: be_u64(height) || 0 || hash.  Big-endian bytes compare
\* as the numbers they encode, so the key is modelled by that number.
heightHashToKey(height, hash) == height * HashSpace + hash

\* keyToHeightHash
keyToHeightHash(key) == [Height |-> key \div HashSpace, Hash |-> key % HashSpace]

\* BlockHeaderByHash finding a record for every hash.
BlockHeaderByHashAny(db, hash) ==
    IF hash \in DOMAIN db.BlockHeadersDB
    THEN <<db.BlockHeadersDB[hash]>>
    ELSE <<BlockHeader(hash, 0)>>

\* BlockHeaderByHash: a sequence holding the record, empty when NotFound.
BlockHeaderByHash(db, hash) ==
    IF hash \in DOMAIN db.BlockHeadersDB
    THEN <<db.BlockHeadersDB[hash]>>
    ELSE <<>>

\* BlockHeadersBest: the record under "last", or no record.
BlockHeadersBest(db) == db.bhsLastKey

\* The points at which BlockHeadersInsert can fail once its batches are
\* built: "bm" is bmTx.Commit failing (both transactions are discarded),
\* "bhs" is bhsTx.Commit failing after bmTx.Commit succeeded.
BHIFails == {"none", "bm", "bhs"}

\* bmBatch without the test of line 236: genesis gets a key too.
bmBatchEveryHeight(bhs) ==
    {heightHashToKey(bhs[k].Height, bhs[k].Hash) : k \in 1..Len(bhs)}

\* The keys bmBatch holds: one per entry of height other than 0.
bmBatch(bhs) ==
    {heightHashToKey(bhs[k].Height, bhs[k].Hash) :
        k \in {i \in 1..Len(bhs) : bhs[i].Height # 0}}

\* The records bhsBatch holds: a later Put of a key replaces an earlier one.
bhsBatch(bhs) ==
    LET keys == {bhs[k].Hash : k \in 1..Len(bhs)}
        lastOf(h) == CHOOSE k \in 1..Len(bhs) :
                        /\ bhs[k].Hash = h
                        /\ \A j \in 1..Len(bhs) : bhs[j].Hash = h => j <= k
    IN [h \in keys |-> bhs[lastOf(h)]]

\* A batch written over a namespace.
Overwrite(f, g) ==
    [k \in DOMAIN f \cup DOMAIN g |-> IF k \in DOMAIN g THEN g[k] ELSE f[k]]

\* BlockHeadersInsert without the duplicate test of lines 222-228.
BlockHeadersInsertNoHas(db, bhs, fail) ==
    IF Len(bhs) = 0 THEN [db |-> db, err |-> "error"]
    ELSE IF fail = "bm" THEN [db |-> db, err |-> "error"]
    ELSE IF fail = "bhs"
    THEN [db |-> [db EXCEPT !.BlocksMissingDB = @ \cup bmBatch(bhs)],
          err |-> "error"]
    ELSE [db |-> [db EXCEPT
                    !.BlocksMissingDB = @ \cup bmBatch(bhs),
                    !.BlockHeadersDB = Overwrite(@, bhsBatch(bhs)),
                    !.bhsLastKey = <<bhs[Len(bhs)]>>],
          err |-> "nil"]

\* BlockHeadersInsert committing BlockHeaders before BlocksMissing: a
\* failing second commit ("bm") leaves the headers written.
BlockHeadersInsertHeadersFirst(db, bhs, fail) ==
    IF Len(bhs) = 0 THEN [db |-> db, err |-> "error"]
    ELSE IF bhs[1].Hash \in DOMAIN db.BlockHeadersDB
    THEN [db |-> db, err |-> "Duplicate"]
    ELSE IF fail = "bhs" THEN [db |-> db, err |-> "error"]
    ELSE IF fail = "bm"
    THEN [db |-> [db EXCEPT
                    !.BlockHeadersDB = Overwrite(@, bhsBatch(bhs)),
                    !.bhsLastKey = <<bhs[Len(bhs)]>>],
          err |-> "error"]
    ELSE [db |-> [db EXCEPT
                    !.BlocksMissingDB = @ \cup bmBatch(bhs),
                    !.BlockHeadersDB = Overwrite(@, bhsBatch(bhs)),
                    !.bhsLastKey = <<bhs[Len(bhs)]>>],
          err |-> "nil"]

\* BlockHeadersInsert putting the first record of the batch under "last".
BlockHeadersInsertFirstAsLast(db, bhs, fail) ==
    IF Len(bhs) = 0 THEN [db |-> db, err |-> "error"]
    ELSE IF bhs[1].Hash \in DOMAIN db.BlockHeadersDB
    THEN [db |-> db, err |-> "Duplicate"]
    ELSE IF fail = "bm" THEN [db |-> db, err |-> "error"]
    ELSE IF fail = "bhs"
    THEN [db |-> [db EXCEPT !.BlocksMissingDB = @ \cup bmBatch(bhs)],
          err |-> "error"]
    ELSE [db |-> [db EXCEPT
                    !.BlocksMissingDB = @ \cup bmBatch(bhs),
                    !.BlockHeadersDB = Overwrite(@, bhsBatch(bhs)),
                    !.bhsLastKey = <<bhs[1]>>],
          err |-> "nil"]

\* BlockHeadersInsert: the store after the call and the error returned.
BlockHeadersInsert(db, bhs, fail) ==
    IF Len(bhs) = 0 THEN [db |-> db, err |-> "error"]
    ELSE IF bhs[1].Hash \in DOMAIN db.BlockHeadersDB
    THEN [db |-> db, err |-> "Duplicate"]
    ELSE IF fail = "bm" THEN [db |-> db, err |-> "error"]
    ELSE IF fail = "bhs"
    THEN [db |-> [db EXCEPT !.BlocksMissingDB = @ \cup bmBatch(bhs)],
          err |-> "error"]
    ELSE [db |-> [db EXCEPT
                    !.BlocksMissingDB = @ \cup bmBatch(bhs),
                    !.BlockHeadersDB = Overwrite(@, bhsBatch(bhs)),
                    !.bhsLastKey = <<bhs[Len(bhs)]>>],
          err |-> "nil"]

\* The points at which BlockInsert can fail once its writes are staged: "b"
\* is bTx.Commit failing (all three transactions are discarded), "bm" is
\* bmTx.Commit failing after bTx.Commit, "bhs" is bhsTx.Commit failing after
\* both.
BIFails == {"none", "b", "bm", "bhs"}

\* BlockInsert refusing a block whose body is already stored.
BlockInsertOnce(db, hash, fail) ==
    IF hash \notin DOMAIN db.BlockHeadersDB
    THEN [db |-> db, err |-> "NotFound", height |-> -1]
    ELSE IF hash \in db.BlocksDB
    THEN [db |-> db, err |-> "Duplicate", height |-> -1]
    ELSE LET bh == db.BlockHeadersDB[hash]
             key == heightHashToKey(bh.Height, bh.Hash)
         IN IF fail = "b" THEN [db |-> db, err |-> "error", height |-> -1]
            ELSE IF fail = "bm"
            THEN [db |-> [db EXCEPT !.BlocksDB = @ \cup {hash}],
                  err |-> "error", height |-> -1]
            ELSE [db |-> [db EXCEPT !.BlocksDB = @ \cup {hash},
                                    !.BlocksMissingDB = @ \ {key}],
                  err |-> IF fail = "bhs" THEN "error" ELSE "nil",
                  height |-> IF fail = "bhs" THEN -1 ELSE bh.Height]

\* BlockInsert leaving the BlocksMissing key in place.
BlockInsertKeepsMarker(db, hash, fail) ==
    IF hash \notin DOMAIN db.BlockHeadersDB
    THEN [db |-> db, err |-> "NotFound", height |-> -1]
    ELSE LET bh == db.BlockHeadersDB[hash]
         IN IF fail = "b" THEN [db |-> db, err |-> "error", height |-> -1]
            ELSE [db |-> [db EXCEPT !.BlocksDB = @ \cup {hash}],
                  err |-> IF fail = "none" THEN "nil" ELSE "error",
                  height |-> IF fail = "none" THEN bh.Height ELSE -1]

\* BlockInsert storing a block that has no header.
BlockInsertUnknown(db, hash, fail) ==
    IF hash \notin DOMAIN db.BlockHeadersDB
    THEN [db |-> [db EXCEPT !.BlocksDB = @ \cup {hash}],
          err |-> "nil", height |-> 0]
    ELSE BlockInsertOnce(db, hash, fail)

\* BlockInsert: the store after the call, the error and the height returned.
BlockInsert(db, hash, fail) ==
    IF hash \notin DOMAIN db.BlockHeadersDB
    THEN [db |-> db, err |-> "NotFound", height |-> -1]
    ELSE LET bh == db.BlockHeadersDB[hash]
             key == heightHashToKey(bh.Height, bh.Hash)
         IN IF fail = "b" THEN [db |-> db, err |-> "error", height |-> -1]
            ELSE IF fail = "bm"
            THEN [db |-> [db EXCEPT !.BlocksDB = @ \cup {hash}],
                  err |-> "error", height |-> -1]
            ELSE [db |-> [db EXCEPT !.BlocksDB = @ \cup {hash},
                                    !.BlocksMissingDB = @ \ {key}],
                  err |-> IF fail = "bhs" THEN "error" ELSE "nil",
                  height |-> IF fail = "bhs" THEN -1 ELSE bh.Height]

\* PeersInsert keeping the peers it is given.
PeersInsertStoring(db, ps) ==
    [db |-> [db EXCEPT !.PeersDB = @ \cup ps], err |-> "nil"]

\* PeersInsert, lines 433-438: returns an error and stores nothing.
PeersInsert(db, ps) == [db |-> db, err |-> "error"]

\* PeerDelete, lines 440-445: returns an error and removes nothing.
PeerDelete(db, addr) == [db |-> db, err |-> "error"]

\* The keys of a namespace in iterator order.
RECURSIVE KeysInOrder(_)
KeysInOrder(S) ==
    IF S = {} THEN <<>>
    ELSE LET m == CHOOSE x \in S : \A y \in S : x <= y
         IN <<m>> \o KeysInOrder(S \ {m})

\* BlocksMissing reading the namespace from its end.
BlocksMissingFromEnd(db, count) ==
    LET keys == KeysInOrder(db.BlocksMissingDB)
        n == IF count < 1 THEN 1 ELSE count
        m == IF Len(keys) < n THEN Len(keys) ELSE n
    IN [k \in 1..m |-> keyToHeightHash(keys[Len(keys) + 1 - k])]

\* BlocksMissing: the loop appends an entry before it tests x >= count.
BlocksMissing(db, count) ==
    LET keys == KeysInOrder(db.BlocksMissingDB)
        n == IF count < 1 THEN 1 ELSE count
        m == IF Len(keys) < n THEN Len(keys) ELSE n
    IN [k \in 1..m |-> keyToHeightHash(keys[k])]

\* The hashes that have a BlocksMissing key.
MissingHashes(db) == {keyToHeightHash(k).Hash : k \in db.BlocksMissingDB}

\* ------------------------------------------------------ genesis bootstrapping
\* A commit may fail only while the fault budget lasts.
MayFail(fail) == fail = "none" \/ faults < MaxFaults

\* The fault budget after a call.
Spend(fail) == IF fail = "none" THEN faults ELSE faults + 1

\* peerConnect panics when blockHeadersBest does not return one tip: the
\* process is gone.
Crashed == \E c \in Callers : bpc[c] = "panic"

\* A genesis record that claims height 1.
GenesisRecordAtOne == BlockHeader(GenesisHash, 1)

\* genesisBlockHeader as insertGenesis builds it.
GenesisRecord == BlockHeader(GenesisHash, 0)

\* blockHeadersBest, lines 1064-1072: the read of the best tip.  A failing
\* read returns the error; a tip returns it; no tip goes to insertGenesis.
BestRead(c, fail) ==
    /\ ~Crashed
    /\ bpc[c] = "start"
    /\ conn[c] = "open"
    /\ MayFail(fail)
    /\ faults' = Spend(fail)
    /\ LET bhs == BlockHeadersBest(pool)
       IN IF fail = "read"
          THEN /\ bpc' = [bpc EXCEPT ![c] = "panic"]
               /\ bres' = [bres EXCEPT ![c] = [err |-> "error", bhs |-> <<>>]]
          ELSE IF Len(bhs) # 0
          THEN /\ bpc' = [bpc EXCEPT ![c] = "ready"]
               /\ bres' = [bres EXCEPT ![c] = [err |-> "nil", bhs |-> bhs]]
          ELSE /\ bpc' = [bpc EXCEPT ![c] = "ig_lock"]
               /\ bres' = bres
    /\ UNCHANGED <<pool, hnd, conn, mtx, insertedGenesis, genesisBlockHeader,
                   histVars, schedVars, runVars>>

\* insertGenesis, lines 1017-1022: s.mtx.Lock(), the latch test, the latch
\* set.  The return at line 1019 comes before the deferred Unlock of line
\* 1022 is registered, so the mutex stays with the caller; blockHeadersBest
\* then appends *genesisBlockHeader and returns.
InsertGenesisLock(c) ==
    /\ ~Crashed
    /\ bpc[c] = "ig_lock"
    /\ mtx = 0
    /\ mtx' = c
    /\ IF insertedGenesis
       THEN /\ bpc' = [bpc EXCEPT ![c] = "ready"]
            /\ bres' = [bres EXCEPT
                          ![c] = [err |-> "nil", bhs |-> genesisBlockHeader]]
            /\ UNCHANGED insertedGenesis
       ELSE /\ insertedGenesis' = TRUE
            /\ bpc' = [bpc EXCEPT ![c] = "ig_header"]
            /\ bres' = bres
    /\ UNCHANGED <<pool, faults, hnd, conn, genesisBlockHeader, histVars,
                   schedVars, runVars>>

\* insertGenesis, lines 1028-1041: the header record and its insert.  An
\* error returns through the deferred Unlock.
InsertGenesisHeader(c, fail) ==
    /\ ~Crashed
    /\ bpc[c] = "ig_header"
    /\ MayFail(fail)
    /\ faults' = Spend(fail)
    /\ LET r == BlockHeadersInsert(pool, <<GenesisRecord>>, fail)
       IN /\ fail # "none" => r.err # "Duplicate"
          /\ pool' = r.db
          /\ genesisBlockHeader' = <<GenesisRecord>>
          /\ IF r.err = "nil"
             THEN /\ bpc' = [bpc EXCEPT ![c] = "ig_block"]
                  /\ UNCHANGED <<mtx, bres>>
             ELSE /\ bpc' = [bpc EXCEPT ![c] = "panic"]
                  /\ bres' = [bres EXCEPT
                                ![c] = [err |-> "error", bhs |-> <<>>]]
                  /\ mtx' = 0
    /\ UNCHANGED <<hnd, conn, insertedGenesis, histVars, schedVars, runVars>>

\* insertGenesis, lines 1043-1056: the genesis block, then the deferred
\* Unlock; blockHeadersBest appends *genesisBlockHeader on success.
InsertGenesisBlock(c, fail) ==
    /\ ~Crashed
    /\ bpc[c] = "ig_block"
    /\ MayFail(fail)
    /\ faults' = Spend(fail)
    /\ LET r == BlockInsert(pool, GenesisHash, fail)
       IN /\ fail # "none" => r.err # "NotFound"
          /\ pool' = r.db
          /\ mtx' = 0
          /\ IF r.err = "nil"
             THEN /\ bpc' = [bpc EXCEPT ![c] = "ready"]
                  /\ bres' = [bres EXCEPT
                                ![c] = [err |-> "nil",
                                        bhs |-> genesisBlockHeader]]
             ELSE /\ bpc' = [bpc EXCEPT ![c] = "panic"]
                  /\ bres' = [bres EXCEPT
                                ![c] = [err |-> "error", bhs |-> <<>>]]
    /\ UNCHANGED <<hnd, conn, insertedGenesis, genesisBlockHeader, histVars,
                   schedVars, runVars>>

\* ------------------------------------------------------- header chain manager
\* A handler goroutine that is not running.
Idle == [pc |-> "idle", peer |-> 0, hdrs |-> <<>>, bis |-> <<>>, used |-> 0]

\* The read loop of session p hands out messages once blockHeadersBest has
\* returned a tip and while the connection is up.
Reading(p) == ~Crashed /\ bpc[p] = "ready" /\ conn[p] = "open"

\* The validation leaving out the last header of the message.
ConnectsButLast(msg, parent) ==
    \A k \in 1..(Len(msg) - 1) :
        PrevBlock(msg[k]) = IF k = 1 THEN parent ELSE msg[k - 1]

\* The validation testing the first header only.
ConnectsFirst(msg, parent) == PrevBlock(msg[1]) = parent

\* handleHeaders, lines 771-776: every header's PrevBlock is the hash of the
\* header before it, the first one's the hash of the looked-up parent.
Connects(msg, parent) ==
    \A k \in 1..Len(msg) :
        PrevBlock(msg[k]) = IF k = 1 THEN parent ELSE msg[k - 1]

\* handleHeaders, lines 769-786: the insert list, heights counted up from
\* the parent's.
InsertList(msg, parentHeight) ==
    [k \in 1..Len(msg) |-> BlockHeader(msg[k], parentHeight + k)]

\* handleHeaders, lines 755-786: the parent lookup and the nominal
\* validation of a non-empty message.  A missing parent or a header that
\* does not connect drops the message.
HandleHeadersLookup(g, p, msg) ==
    /\ Reading(p)
    /\ hnd[g] = Idle
    /\ Len(msg) > 0
    /\ LET dbpbh == BlockHeaderByHash(pool, PrevBlock(msg[1]))
       IN /\ dbpbh # <<>>
          /\ Connects(msg, dbpbh[1].Header)
          /\ hnd' = [hnd EXCEPT
                       ![g] = [Idle EXCEPT
                                 !.pc = "insert", !.peer = p,
                                 !.hdrs = InsertList(msg, dbpbh[1].Height)]]
    /\ UNCHANGED <<pool, faults, conn, genVars, histVars, schedVars, runVars>>

\* handleHeaders, lines 788-811: the insert.  Any error closes the peer;
\* success asks the peer for the next batch.
HandleHeadersInsert(g, fail) ==
    /\ ~Crashed
    /\ hnd[g].pc = "insert"
    /\ MayFail(fail)
    /\ faults' = Spend(fail)
    /\ LET r == BlockHeadersInsert(pool, hnd[g].hdrs, fail)
       IN /\ fail # "none" => r.err # "Duplicate"
          /\ pool' = r.db
          /\ conn' = IF r.err = "nil" THEN conn
                     ELSE [conn EXCEPT ![hnd[g].peer] = "closed"]
    /\ hnd' = [hnd EXCEPT ![g] = Idle]
    /\ UNCHANGED <<genVars, histVars, schedVars, runVars>>

\* lastOp before any store call.
NoOp ==
    [op |-> "none", msg |-> <<>>, hdrs |-> <<>>, hash |-> GenesisHash,
     addr |-> 0,
     fail |-> "none", err |-> "nil", height |-> -1, pre |-> New,
     again |-> FALSE, rerun |-> FALSE]

\* A call of Run that has not been made.
NotCalled == [pc |-> "idle", err |-> ""]

\* NewServer and level.New: empty namespaces, no handler running, every
\* session connected and about to call blockHeadersBest.
InitChain ==
    /\ pool = New
    /\ faults = 0
    /\ hnd = [g \in Handlers |-> Idle]
    /\ conn = [c \in Callers |-> "open"]
    /\ mtx = 0
    /\ insertedGenesis = FALSE
    /\ genesisBlockHeader = <<>>
    /\ bpc = [c \in Callers |-> "start"]
    /\ bres = [c \in Callers |-> [err |-> "", bhs |-> <<>>]]
    /\ lastOp = NoOp
    /\ partial = FALSE
    /\ intr = <<>>
    /\ peers = Peers
    /\ now = 0
    /\ blocks = [h \in {} |-> h]
    /\ isRunning = TRUE
    /\ run = [r \in Runners |->
                IF r = 1 THEN [pc |-> "wait", err |-> ""] ELSE NotCalled]
    /\ ctx = "live"
    /\ wg = 1
    /\ pm = [pc |-> "loop", of |-> 1]
    /\ sess = [p \in Peers |-> 1]
    /\ peerC = {}
    /\ ping = {}

\* The chain manager: sessions bootstrap genesis, then their headers
\* messages are handled by concurrent goroutines.
NextChain ==
    \/ \E c \in Peers, fail \in {"none", "read"} : BestRead(c, fail)
    \/ \E c \in Peers : InsertGenesisLock(c)
    \/ \E c \in Peers, fail \in BHIFails : InsertGenesisHeader(c, fail)
    \/ \E c \in Peers, fail \in BIFails : InsertGenesisBlock(c, fail)
    \/ \E g \in Handlers, p \in Peers, msg \in HeaderMsgs :
          HandleHeadersLookup(g, p, msg)
    \/ \E g \in Handlers, fail \in BHIFails : HandleHeadersInsert(g, fail)

SpecChain == InitChain /\ [][NextChain]_vars

\* The race for genesis: every caller of blockHeadersBest, no messages.
NextGenesis ==
    \/ \E c \in Callers, fail \in {"none", "read"} : BestRead(c, fail)
    \/ \E c \in Callers : InsertGenesisLock(c)
    \/ \E c \in Callers, fail \in BHIFails : InsertGenesisHeader(c, fail)
    \/ \E c \in Callers, fail \in BIFails : InsertGenesisBlock(c, fail)

SpecGenesis == InitChain /\ [][NextGenesis]_vars

\* ------------------------------------------------------ the store's contract
\* The store under the calls its callers make, one call at a time: a store
\* call holds the BlockHeaders transaction from its first line to its last.
\* lastOp, partial and intr keep what the last call was given and returned.

\* Every record of the batch is in BlockHeaders as the batch holds it: the
\* state of the namespace once the batch has been inserted.
AllStored(db, bhs) ==
    \A k \in 1..Len(bhs) :
        /\ bhs[k].Hash \in DOMAIN db.BlockHeadersDB
        /\ db.BlockHeadersDB[bhs[k].Hash] = bhs[k]

\* A BlockHeadersInsert call and what it leaves in the history variables.
CallHeadersInsert(msg, bhs, fail) ==
    LET r == BlockHeadersInsert(pool, bhs, fail)
    IN /\ MayFail(fail)
       /\ fail # "none" => r.err # "Duplicate"
       /\ faults' = Spend(fail)
       /\ pool' = r.db
       /\ lastOp' = [NoOp EXCEPT
                       !.op = "BlockHeadersInsert", !.msg = msg,
                       !.hdrs = bhs, !.fail = fail, !.err = r.err,
                       !.pre = pool, !.again = AllStored(pool, bhs)]
       /\ partial' = (partial \/ fail = "bhs")
       /\ intr' = <<>>

\* insertGenesis, line 1038: called when blockHeadersBest found no tip.
StoreGenesisHeader(fail) ==
    /\ BlockHeadersBest(pool) = <<>>
    /\ CallHeadersInsert(<<>>, <<GenesisRecord>>, fail)
    /\ UNCHANGED <<chainVars, genVars, schedVars, runVars>>

\* handleHeaders, line 789: called with the insert list of a message that
\* connects to a stored parent.
StoreHeadersInsert(msg, fail) ==
    /\ Len(msg) > 0
    /\ LET dbpbh == BlockHeaderByHash(pool, PrevBlock(msg[1]))
       IN /\ dbpbh # <<>>
          /\ Connects(msg, dbpbh[1].Header)
          /\ CallHeadersInsert(msg, InsertList(msg, dbpbh[1].Height), fail)
    /\ UNCHANGED <<chainVars, genVars, schedVars, runVars>>

\* handleHeaders, lines 755-776: the returns before the insert.  A message
\* whose parent is not stored, or with a header that does not connect, is
\* dropped with the insert list built so far.
StoreHeadersDrop(msg) ==
    /\ Len(msg) > 0
    /\ LET dbpbh == BlockHeaderByHash(pool, PrevBlock(msg[1]))
       IN IF dbpbh = <<>> THEN TRUE ELSE ~Connects(msg, dbpbh[1].Header)
    /\ lastOp' = [NoOp EXCEPT !.op = "handleHeaders", !.msg = msg,
                               !.err = "error", !.pre = pool]
    /\ UNCHANGED <<pool, faults, partial, intr>>
    /\ UNCHANGED <<chainVars, genVars, schedVars, runVars>>

\* handleBlock, line 861, and insertGenesis, line 1048: BlockInsert of any
\* block.  An interrupted call records the store an uninterrupted run would
\* have left, until another call follows.
StoreBlockInsert(hash, fail) ==
    LET r == BlockInsert(pool, hash, fail)
        again == intr # <<>> /\ intr[1].hash = hash
    IN /\ MayFail(fail)
       /\ fail # "none" => r.err # "NotFound"
       /\ faults' = Spend(fail)
       /\ pool' = r.db
       /\ lastOp' = [NoOp EXCEPT
                       !.op = "BlockInsert", !.hash = hash, !.fail = fail,
                       !.err = r.err, !.height = r.height, !.pre = pool,
                       !.rerun = again /\ fail = "none"]
       /\ partial' = (partial \/ fail = "bm")
       /\ intr' = IF again THEN intr
                  ELSE IF fail \in {"bm", "bhs"}
                  THEN <<[hash |-> hash,
                          expect |-> BlockInsert(pool, hash, "none").db]>>
                  ELSE <<>>
       /\ UNCHANGED <<chainVars, genVars, schedVars, runVars>>

NextStore ==
    \/ \E fail \in BHIFails : StoreGenesisHeader(fail)
    \/ \E msg \in HeaderMsgs, fail \in BHIFails : StoreHeadersInsert(msg, fail)
    \/ \E msg \in HeaderMsgs : StoreHeadersDrop(msg)
    \/ \E hash \in Hashes, fail \in BIFails : StoreBlockInsert(hash, fail)

SpecStore == InitChain /\ [][NextStore]_vars

\* ------------------------------------------------------- the block scheduler
\* defaultPendingBlocks, the capacity of the pending-blocks map: 128 in the
\* source, scaled down to keep the map small.
defaultPendingBlocks == 2

\* Longest inv list a peer sends.
MaxInv == 1

\* hash.String(), the key of s.blocks: the hex string, named by the hash.
hashS(hash) == hash

\* string(bm[k].Hash), the key checkBlockCache prunes with: the raw bytes of
\* the hash, which no hex string equals.
rawS(hash) == 0 - (hash + 1)

\* The blocks peers announce and deliver: every block but genesis.
Announced == Hashes \ {GenesisHash}

\* The block hashes of an inv message: msg.InvList entries of InvTypeBlock.
InvMsgs ==
    {bis \in UNION {[1..n -> Announced] : n \in 1..MaxInv} :
        \A i, j \in 1..Len(bis) : i # j => bis[i] # bis[j]}

\* The height handleHeaders gave a header of the tree.
RECURSIVE HeightOf(_)
HeightOf(h) == IF h = GenesisHash THEN 0 ELSE HeightOf(PrevBlock(h)) + 1

\* The store once the headers of the whole tree are in and no block but
\* genesis is.
SyncedStore ==
    [BlockHeadersDB |-> [h \in Hashes |-> BlockHeader(h, HeightOf(h))],
     bhsLastKey |-> <<BlockHeader(MaxHash, HeightOf(MaxHash))>>,
     BlocksMissingDB |->
        {heightHashToKey(HeightOf(h), h) : h \in Hashes \ {GenesisHash}},
     BlocksDB |-> {GenesisHash}, PeersDB |-> {}]

\* The 37 seconds an entry of s.blocks waits for its block, in ticks.
blockTimeout == 1

\* The last tick of the clock.
MaxTime == 2

\* randPeerWrite, line 346: the capacity test.
CacheFull(blks) == Cardinality(DOMAIN blks) >= defaultPendingBlocks

\* blockPeerAdd, lines 208-220: "nil" and the map with the entry added, or
\* the error and the map as it was.
blockPeerAdd(blks, hash, peer) ==
    IF peer \notin peers THEN [blocks |-> blks, err |-> "expired peer"]
    ELSE IF hash \in DOMAIN blks
    THEN [blocks |-> blks, err |-> "already cached"]
    ELSE [blocks |->
            [h \in DOMAIN blks \cup {hash} |->
                IF h = hash
                THEN [peer |-> peer, expire |-> now + blockTimeout]
                ELSE blks[h]],
          err |-> "nil"]

\* randPeerWrite, lines 350-365: the peers the loop over s.peers can stop
\* at, those with a connection for which blockPeerAdd returns nil.
Eligible(blks, hash) ==
    {p \in peers : conn[p] # "nil" /\ blockPeerAdd(blks, hash, p).err = "nil"}

\* The outcomes of the loop over s.peers: an eligible peer, or 0 for none.
Pick(blks, hash) ==
    IF Eligible(blks, hash) = {} THEN {0} ELSE Eligible(blks, hash)

\* The outcomes of that loop for the entries of one downloadBlocks list.
Choices == UNION {[1..n -> Peers \cup {0}] : n \in 0..defaultPendingBlocks}

\* randPeerWrite, lines 350-371: the entry goes into the map at peer p, the
\* eligible peer the map iteration reaches first, and getdata is written to
\* it; the write fails on a closed connection and the entry stays.
Assign(blks, hash, p) ==
    IF p = 0 THEN [blocks |-> blks, err |-> "no peers"]
    ELSE [blocks |-> blockPeerAdd(blks, hash, p).blocks,
          err |-> IF conn[p] = "open" THEN "nil" ELSE "write error"]

\* randPeerWrite as one step, as it runs under s.mtx.
randPeerWrite(blks, hash, p) ==
    IF CacheFull(blks) THEN [blocks |-> blks, err |-> "cache full"]
    ELSE Assign(blks, hash, p)

\* downloadBlocks, lines 1088-1119, as it runs under s.mtx: one
\* randPeerWrite per entry.  The break of the CacheFull and NoPeers cases
\* leaves the switch, not the loop, so every entry is tried.  ch[k] is the
\* outcome of the loop over s.peers for entry k (0 when the loop is not
\* reached); sent is the set of hashes whose getdata was written, and
\* valid tells that every ch[k] is an outcome that loop can have.
RECURSIVE downloadBlocks(_, _, _)
downloadBlocks(blks, bis, ch) ==
    IF bis = <<>> THEN [blocks |-> blks, sent |-> {}, valid |-> TRUE]
    ELSE LET hash == hashS(Head(bis))
             r == randPeerWrite(blks, hash, Head(ch))
             rest == downloadBlocks(r.blocks, Tail(bis), Tail(ch))
         IN [blocks |-> rest.blocks,
             sent |-> rest.sent \cup (IF r.err = "nil" THEN {hash} ELSE {}),
             valid |-> /\ Head(ch) \in IF CacheFull(blks) THEN {0}
                                       ELSE Pick(blks, hash)
                       /\ rest.valid]

\* blockPeerExpire, lines 224-245: gone is the set of entries whose expire
\* time now is after.  The entries left and the peers whose connection is
\* closed.
blockPeerExpire(blks, gone) ==
    [blocks |-> [h \in DOMAIN blks \ gone |-> blks[h]],
     closed |-> {p \in peers :
                   conn[p] # "nil" /\ \E h \in gone : blks[h].peer = p}]

\* The handler goroutine g going on to the next entry of its list: bis
\* holds the entries from bis[k] on.
NextEntry(g) ==
    IF Len(hnd[g].bis) > 1
    THEN [hnd EXCEPT ![g].pc = "rpw_check", ![g].bis = Tail(@)]
    ELSE [hnd EXCEPT ![g] = Idle]

\* peerConnect, line 622, and handleInv, lines 706-731: an inv message
\* starts a handler with the block hashes of the message.
RecvInv(g, bis) ==
    /\ \E p \in Peers : Reading(p)
    /\ hnd[g] = Idle
    /\ hnd' = [hnd EXCEPT
                 ![g] = [Idle EXCEPT !.pc = "rpw_check", !.bis = bis]]
    /\ UNCHANGED <<storeVars, conn, genVars, histVars, schedVars, runVars>>

\* handleInv, line 733, downloadBlocks and randPeerWrite, line 346: the
\* capacity test, made without s.mtx.  CacheFull goes on to the next entry.
InvCacheCheck(g) ==
    /\ ~Crashed
    /\ hnd[g].pc = "rpw_check"
    /\ hnd' = IF CacheFull(blocks)
              THEN NextEntry(g)
              ELSE [hnd EXCEPT ![g].pc = "rpw_add"]
    /\ UNCHANGED <<storeVars, conn, genVars, histVars, schedVars, runVars>>

\* randPeerWrite, lines 350-371, made without s.mtx: the entry is added and
\* getdata written, whatever the map has grown to since the capacity test.
InvAssign(g, p) ==
    /\ ~Crashed
    /\ hnd[g].pc = "rpw_add"
    /\ LET hash == hashS(Head(hnd[g].bis))
       IN /\ p \in Pick(blocks, hash)
          /\ blocks' = Assign(blocks, hash, p).blocks
    /\ hnd' = NextEntry(g)
    /\ UNCHANGED <<storeVars, conn, genVars, histVars, peers, now, runVars>>

\* peerConnect, line 625, and handleHeaders, lines 746-750: an empty
\* headers message runs checkBlockCache.
RecvEmptyHeaders(g) ==
    /\ \E p \in Peers : Reading(p)
    /\ hnd[g] = Idle
    /\ hnd' = [hnd EXCEPT ![g] = [Idle EXCEPT !.pc = "expire"]]
    /\ UNCHANGED <<storeVars, conn, genVars, histVars, schedVars, runVars>>

\* peerConnect, line 616, and handleBlock, lines 814-868: the block is
\* inserted; the handler goes on whatever BlockInsert returned.
RecvBlock(g, hash, fail) ==
    /\ \E p \in Peers : Reading(p)
    /\ hnd[g] = Idle
    /\ MayFail(fail)
    /\ faults' = Spend(fail)
    /\ LET r == BlockInsert(pool, hash, fail)
       IN /\ fail # "none" => r.err # "NotFound"
          /\ pool' = r.db
    /\ hnd' = [hnd EXCEPT
                 ![g] = [Idle EXCEPT !.pc = "delete", !.bis = <<hash>>]]
    /\ UNCHANGED <<conn, genVars, histVars, schedVars, runVars>>

\* handleBlock, lines 887-888: under s.mtx, the hash leaves the map.
BlockDelete(g) ==
    /\ ~Crashed
    /\ hnd[g].pc = "delete"
    /\ mtx = 0
    /\ LET hash == hashS(hnd[g].bis[1])
       IN blocks' = [h \in DOMAIN blocks \ {hash} |-> blocks[h]]
    /\ hnd' = [hnd EXCEPT ![g] = [Idle EXCEPT !.pc = "expire"]]
    /\ UNCHANGED <<storeVars, conn, genVars, histVars, peers, now, runVars>>

\* The hashes with a BlocksMissing key and no pending entry.
Unassigned(blks) ==
    {h \in {hashS(x) : x \in MissingHashes(pool)} : h \notin DOMAIN blks}

\* checkBlockCache, lines 949-953: the expiry sweep under s.mtx, and the
\* return when no slot is free.
Expire(g, gone) ==
    /\ ~Crashed
    /\ hnd[g].pc = "expire"
    /\ mtx = 0
    /\ LET r == blockPeerExpire(blocks, gone)
           used == Cardinality(DOMAIN r.blocks)
       IN /\ blocks' = r.blocks
          /\ conn' = [c \in Callers |->
                        IF c \in r.closed THEN "closed" ELSE conn[c]]
          /\ IF defaultPendingBlocks - used <= 0
             THEN hnd' = [hnd EXCEPT ![g] = Idle]
             ELSE hnd' = [hnd EXCEPT ![g].pc = "download", ![g].used = used]
    /\ UNCHANGED <<storeVars, genVars, histVars, peers, now, runVars>>

\* checkBlockCache, lines 972-1004: under s.mtx, the lowest want keys of
\* BlocksMissing, less those the prune finds in the map, go to
\* downloadBlocks.  A failing read returns.
Download(g, fail, ch) ==
    /\ ~Crashed
    /\ hnd[g].pc = "download"
    /\ mtx = 0
    /\ MayFail(fail)
    /\ faults' = Spend(fail)
    /\ LET want == defaultPendingBlocks - hnd[g].used
           bm == BlocksMissing(pool, want)
           unseen(h) == rawS(h) \notin DOMAIN blocks
           prunedBM == SelectSeq([k \in 1..Len(bm) |-> bm[k].Hash], unseen)
           r == IF fail = "read"
                THEN [blocks |-> blocks, sent |-> {}, valid |-> ch = <<>>]
                ELSE downloadBlocks(blocks, prunedBM, ch)
       IN /\ fail = "none" => Len(ch) = Len(prunedBM)
          /\ r.valid
          /\ blocks' = r.blocks
    /\ hnd' = [hnd EXCEPT ![g] = Idle]
    /\ UNCHANGED <<pool, conn, genVars, histVars, peers, now, runVars>>

\* The scheduler starts where the chain manager leaves the service: the
\* headers of the tree stored, every session reading messages.
InitSched ==
    /\ pool = SyncedStore
    /\ faults = 0
    /\ hnd = [g \in Handlers |-> Idle]
    /\ conn = [c \in Callers |-> "open"]
    /\ mtx = 0
    /\ insertedGenesis = TRUE
    /\ genesisBlockHeader = <<GenesisRecord>>
    /\ bpc = [c \in Callers |-> IF c \in Peers THEN "ready" ELSE "start"]
    /\ bres = [c \in Callers |->
                 IF c \in Peers THEN [err |-> "nil", bhs |-> <<GenesisRecord>>]
                 ELSE [err |-> "", bhs |-> <<>>]]
    /\ lastOp = NoOp
    /\ partial = FALSE
    /\ intr = <<>>
    /\ peers = Peers
    /\ now = 0
    /\ blocks = [h \in {} |-> h]
    /\ isRunning = TRUE
    /\ run = [r \in Runners |->
                IF r = 1 THEN [pc |-> "wait", err |-> ""] ELSE NotCalled]
    /\ ctx = "live"
    /\ wg = 1
    /\ pm = [pc |-> "loop", of |-> 1]
    /\ sess = [p \in Peers |-> 1]
    /\ peerC = {}
    /\ ping = {}

NextSched ==
    \/ \E g \in Handlers, bis \in InvMsgs : RecvInv(g, bis)
    \/ \E g \in Handlers : InvCacheCheck(g)
    \/ \E g \in Handlers, p \in Peers \cup {0} : InvAssign(g, p)
    \/ \E g \in Handlers : RecvEmptyHeaders(g)
    \/ \E g \in Handlers, hash \in Announced, fail \in BIFails :
          RecvBlock(g, hash, fail)
    \/ \E g \in Handlers : BlockDelete(g)
    \/ \E g \in Handlers, gone \in SUBSET DOMAIN blocks : Expire(g, gone)
    \/ \E g \in Handlers, fail \in {"none", "read"}, ch \in Choices :
          Download(g, fail, ch)

SpecSched == InitSched /\ [][NextSched]_vars

\* ------------------------------------------ the transactions of the store
\* The store operations the service calls concurrently.
StoreOps ==
    {"BlockHeadersInsert", "BlockInsert", "BlocksMissing",
     "BlockHeaderByHash", "BlockHeadersBest"}

\* BlockInsert opening the Blocks transaction first.
OpenOrderBlocksFirst(op) ==
    IF op = "BlockHeadersInsert" THEN <<"bhs", "bm">>
    ELSE IF op = "BlockInsert" THEN <<"b", "bm", "bhs">>
    ELSE IF op = "BlocksMissing" THEN <<"bm">>
    ELSE <<"bhs">>

\* The OpenTransaction calls of an operation, in the order it makes them:
\* BlockHeadersInsert level.go:192-207, BlockInsert 333-363, BlocksMissing
\* 291-292, BlockHeaderByHash 77-78, BlockHeadersBest 123-124.
OpenOrder(op) ==
    IF op = "BlockHeadersInsert" THEN <<"bhs", "bm">>
    ELSE IF op = "BlockInsert" THEN <<"bhs", "bm", "b">>
    ELSE IF op = "BlocksMissing" THEN <<"bm">>
    ELSE <<"bhs">>

\* The Commit calls of an operation, in the order it makes them:
\* BlockHeadersInsert level.go:270-281, BlockInsert 411-427.
CommitOrder(op) ==
    IF op = "BlockHeadersInsert" THEN <<"bm", "bhs">>
    ELSE IF op = "BlockInsert" THEN <<"b", "bm", "bhs">>
    ELSE IF op = "BlocksMissing" THEN <<"bm">>
    ELSE <<"bhs">>

\* The namespaces on which some call other than g has a transaction open.
HeldByOthers(g) ==
    UNION {{hnd[h].held[i] : i \in 1..Len(hnd[h].held)} :
              h \in {x \in Handlers \ {g} : hnd[x] # Idle}}

\* A goroutine calls a store operation.
TxCall(g, op) ==
    /\ hnd[g] = Idle
    /\ hnd' = [hnd EXCEPT
                 ![g] = [pc |-> "open", op |-> op, todo |-> OpenOrder(op),
                         held |-> <<>>, cm |-> <<>>]]
    /\ UNCHANGED <<storeVars, conn, genVars, histVars, schedVars, runVars>>

\* OpenTransaction: it returns once no other transaction is open on the
\* namespace.  After the last one the operation does its reads and stages
\* its writes.
TxOpen(g) ==
    /\ hnd[g] # Idle
    /\ hnd[g].pc = "open"
    /\ Head(hnd[g].todo) \notin HeldByOthers(g)
    /\ hnd' = [hnd EXCEPT
                 ![g].held = Append(@, Head(hnd[g].todo)),
                 ![g].todo = Tail(@),
                 ![g].pc = IF Len(hnd[g].todo) = 1 THEN "commit" ELSE "open",
                 ![g].cm = IF Len(hnd[g].todo) = 1
                           THEN CommitOrder(hnd[g].op) ELSE <<>>]
    /\ UNCHANGED <<storeVars, conn, genVars, histVars, schedVars, runVars>>

\* A held sequence without one namespace.
Release(held, ns) == SelectSeq(held, LAMBDA x : x # ns)

\* The records of a call after it let go of a namespace.
AfterRelease(g, ns, pc) ==
    IF Len(hnd[g].held) = 1 THEN [hnd EXCEPT ![g] = Idle]
    ELSE [hnd EXCEPT ![g].held = Release(@, ns), ![g].pc = pc,
                     ![g].cm = IF pc = "commit" THEN Tail(@) ELSE <<>>]

\* Commit of the next transaction in the operation's commit order.
TxCommit(g) ==
    /\ hnd[g] # Idle
    /\ hnd[g].pc = "commit"
    /\ hnd' = AfterRelease(g, Head(hnd[g].cm), "commit")
    /\ UNCHANGED <<storeVars, conn, genVars, histVars, schedVars, runVars>>

\* An error return, a failing Commit included: the deferred Discard calls
\* run last registered first, so the transaction opened last goes first.
TxDiscard(g) ==
    /\ hnd[g] # Idle
    /\ hnd[g].pc \in {"commit", "discard"}
    /\ hnd' = AfterRelease(g, hnd[g].held[Len(hnd[g].held)], "discard")
    /\ UNCHANGED <<storeVars, conn, genVars, histVars, schedVars, runVars>>

NextTx ==
    \/ \E g \in Handlers, op \in StoreOps : TxCall(g, op)
    \/ \E g \in Handlers : TxOpen(g)
    \/ \E g \in Handlers : TxCommit(g)
    \/ \E g \in Handlers : TxDiscard(g)

SpecTx == InitChain /\ [][NextTx]_vars

\* ------------------------------------------- the scheduler and the mutex
\* The name under which handler goroutine g holds s.mtx.
HandlerTask(g) == MaxPeers + 1 + g

\* handleBlock, line 887: s.mtx.Lock().
BlockLock(g) ==
    /\ ~Crashed
    /\ hnd[g].pc = "delete"
    /\ mtx = 0
    /\ mtx' = HandlerTask(g)
    /\ hnd' = [hnd EXCEPT ![g].pc = "locked"]
    /\ UNCHANGED <<storeVars, conn, insertedGenesis, genesisBlockHeader, bpc,
                   bres, histVars, schedVars, runVars>>

\* handleBlock, lines 888-927: the hash leaves the map and the statistics
\* are read, with s.mtx held.
BlockDeleteLocked(g) ==
    /\ hnd[g].pc = "locked"
    /\ LET hash == hashS(hnd[g].bis[1])
       IN blocks' = [h \in DOMAIN blocks \ {hash} |-> blocks[h]]
    /\ hnd' = [hnd EXCEPT ![g].pc = "unlock"]
    /\ UNCHANGED <<storeVars, conn, genVars, histVars, peers, now, runVars>>

\* handleBlock, lines 928-941: s.mtx.Unlock(), then checkBlockCache.
BlockUnlock(g) ==
    /\ hnd[g].pc = "unlock"
    /\ mtx' = 0
    /\ hnd' = [hnd EXCEPT ![g] = [Idle EXCEPT !.pc = "expire"]]
    /\ UNCHANGED <<storeVars, conn, insertedGenesis, genesisBlockHeader, bpc,
                   bres, histVars, schedVars, runVars>>

\* checkBlockCache, line 972: s.mtx.Lock().
DownloadLock(g) ==
    /\ ~Crashed
    /\ hnd[g].pc = "download"
    /\ mtx = 0
    /\ mtx' = HandlerTask(g)
    /\ hnd' = [hnd EXCEPT ![g].pc = "dl_locked"]
    /\ UNCHANGED <<storeVars, conn, insertedGenesis, genesisBlockHeader, bpc,
                   bres, histVars, schedVars, runVars>>

\* checkBlockCache, lines 975-1000, with s.mtx held: s.db.BlocksMissing is
\* called, the list is pruned and downloadBlocks writes a getdata per entry
\* it assigns.  read tells that the store was called, sent keeps the hashes
\* whose getdata was written to a connection.
DownloadLocked(g, ch) ==
    /\ hnd[g].pc = "dl_locked"
    /\ LET want == defaultPendingBlocks - hnd[g].used
           bm == BlocksMissing(pool, want)
           unseen(h) == rawS(h) \notin DOMAIN blocks
           prunedBM == SelectSeq([k \in 1..Len(bm) |-> bm[k].Hash], unseen)
           r == downloadBlocks(blocks, prunedBM, ch)
       IN /\ Len(ch) = Len(prunedBM)
          /\ r.valid
          /\ blocks' = r.blocks
          /\ hnd' = [hnd EXCEPT
                       ![g] = [pc |-> "dl_unlock", peer |-> 0, hdrs |-> <<>>,
                               bis |-> <<>>, used |-> hnd[g].used,
                               read |-> TRUE, sent |-> r.sent]]
    /\ UNCHANGED <<storeVars, conn, genVars, histVars, peers, now, runVars>>

\* checkBlockCache, line 973: the deferred s.mtx.Unlock().
DownloadUnlock(g) ==
    /\ hnd[g].pc = "dl_unlock"
    /\ mtx' = 0
    /\ hnd' = [hnd EXCEPT ![g] = Idle]
    /\ UNCHANGED <<storeVars, conn, insertedGenesis, genesisBlockHeader, bpc,
                   bres, histVars, schedVars, runVars>>

\* The scheduler with the critical sections of handleBlock and of
\* checkBlockCache taken step by step, and no failing store call.
NextLock ==
    \/ \E g \in Handlers, bis \in InvMsgs : RecvInv(g, bis)
    \/ \E g \in Handlers : InvCacheCheck(g)
    \/ \E g \in Handlers, p \in Peers \cup {0} : InvAssign(g, p)
    \/ \E g \in Handlers, hash \in Announced : RecvBlock(g, hash, "none")
    \/ \E g \in Handlers : BlockLock(g)
    \/ \E g \in Handlers : BlockDeleteLocked(g)
    \/ \E g \in Handlers : BlockUnlock(g)
    \/ \E g \in Handlers, gone \in SUBSET DOMAIN blocks : Expire(g, gone)
    \/ \E g \in Handlers : DownloadLock(g)
    \/ \E g \in Handlers, ch \in Choices : DownloadLocked(g, ch)
    \/ \E g \in Handlers : DownloadUnlock(g)

SpecLock == InitSched /\ [][NextLock]_vars

\* ------------------------------------------------------ the block handler
\* The store while the headers are still coming in: the header of the last
\* hash of the tree is not stored yet.
KnownHashes == Hashes \ {MaxHash}

PartStore ==
    [BlockHeadersDB |-> [h \in KnownHashes |-> BlockHeader(h, HeightOf(h))],
     bhsLastKey |-> <<BlockHeader(MaxHash - 1, HeightOf(MaxHash - 1))>>,
     BlocksMissingDB |->
        {heightHashToKey(HeightOf(h), h) : h \in KnownHashes \ {GenesisHash}},
     BlocksDB |-> {GenesisHash}, PeersDB |-> {}]

\* peerConnect, line 616: a block message starts handleBlock in a goroutine.
BlockArrive(g, hash) ==
    /\ \E p \in Peers : Reading(p)
    /\ hnd[g] = Idle
    /\ hnd' = [hnd EXCEPT
                 ![g] = [Idle EXCEPT !.pc = "sanity", !.bis = <<hash>>]]
    /\ UNCHANGED <<storeVars, conn, genVars, histVars, schedVars, runVars>>

\* handleBlock, lines 818-848: block.Bytes() and, with cfg.BlockSanity set,
\* CheckBlockSanity.  A block that fails either ends the handler.
BlockCheck(g, ok) ==
    /\ ~Crashed
    /\ hnd[g].pc = "sanity"
    /\ hnd' = IF ok THEN [hnd EXCEPT ![g].pc = "insert"]
              ELSE [hnd EXCEPT ![g] = Idle]
    /\ UNCHANGED <<storeVars, conn, genVars, histVars, schedVars, runVars>>

\* handleBlock, lines 862-868: s.db.BlockInsert; the error is logged and
\* the handler goes on.
BlockStore(g, fail) ==
    /\ ~Crashed
    /\ hnd[g].pc = "insert"
    /\ MayFail(fail)
    /\ faults' = Spend(fail)
    /\ LET r == BlockInsert(pool, hnd[g].bis[1], fail)
       IN /\ fail # "none" => r.err \notin {"NotFound", "Duplicate"}
          /\ pool' = r.db
          /\ hnd' = [hnd EXCEPT
                       ![g] = [pc |-> "delete", peer |-> 0, hdrs |-> <<>>,
                               bis |-> hnd[g].bis, used |-> 0,
                               err |-> r.err]]
    /\ UNCHANGED <<conn, genVars, histVars, schedVars, runVars>>

\* The block handler while headers are incomplete: inv messages fill the
\* pending-blocks map, blocks arrive for stored and for unknown headers.
InitBlock ==
    /\ pool = PartStore
    /\ faults = 0
    /\ hnd = [g \in Handlers |-> Idle]
    /\ conn = [c \in Callers |-> "open"]
    /\ mtx = 0
    /\ insertedGenesis = TRUE
    /\ genesisBlockHeader = <<GenesisRecord>>
    /\ bpc = [c \in Callers |-> IF c \in Peers THEN "ready" ELSE "start"]
    /\ bres = [c \in Callers |->
                 IF c \in Peers THEN [err |-> "nil", bhs |-> <<GenesisRecord>>]
                 ELSE [err |-> "", bhs |-> <<>>]]
    /\ lastOp = NoOp
    /\ partial = FALSE
    /\ intr = <<>>
    /\ peers = Peers
    /\ now = 0
    /\ blocks = [h \in {} |-> h]
    /\ isRunning = TRUE
    /\ run = [r \in Runners |->
                IF r = 1 THEN [pc |-> "wait", err |-> ""] ELSE NotCalled]
    /\ ctx = "live"
    /\ wg = 1
    /\ pm = [pc |-> "loop", of |-> 1]
    /\ sess = [p \in Peers |-> 1]
    /\ peerC = {}
    /\ ping = {}

NextBlock ==
    \/ \E g \in Handlers, bis \in InvMsgs : RecvInv(g, bis)
    \/ \E g \in Handlers : InvCacheCheck(g)
    \/ \E g \in Handlers, p \in Peers \cup {0} : InvAssign(g, p)
    \/ \E g \in Handlers, hash \in Announced : BlockArrive(g, hash)
    \/ \E g \in Handlers, ok \in BOOLEAN : BlockCheck(g, ok)
    \/ \E g \in Handlers, fail \in BIFails : BlockStore(g, fail)
    \/ \E g \in Handlers : BlockDelete(g)
    \/ \E g \in Handlers, gone \in SUBSET DOMAIN blocks : Expire(g, gone)
    \/ \E g \in Handlers, fail \in {"none", "read"}, ch \in Choices :
          Download(g, fail, ch)

SpecBlock == InitBlock /\ [][NextBlock]_vars

\* ---------------------------------------------------- the headers handler
\* The store once blockHeadersBest has inserted genesis: the genesis header
\* under its hash and under "last", the genesis block, no marker.
BootStore ==
    BlockInsert(BlockHeadersInsert(New, <<GenesisRecord>>, "none").db,
                GenesisHash, "none").db

\* What lastOp keeps of a message handleHeaders dropped.
Dropped(hash) == [NoOp EXCEPT !.op = "drop", !.hash = hash]

\* What lastOp keeps of a getheaders written to a peer: the peer and the
\* block locator hash.
GetHeaders(p, hash) ==
    [NoOp EXCEPT !.op = "getheaders", !.addr = p, !.hash = hash]

\* peerConnect, line 625, and handleHeaders, lines 746-786: a headers
\* message that is not empty starts a handler; the parent lookup and the
\* nominal validation.  A missing parent or a header that does not connect
\* is logged and the handler returns.
HeadersLookup(g, p, msg) ==
    /\ Reading(p)
    /\ hnd[g] = Idle
    /\ Len(msg) > 0
    /\ LET dbpbh == BlockHeaderByHash(pool, PrevBlock(msg[1]))
           connects == IF dbpbh = <<>> THEN FALSE
                       ELSE Connects(msg, dbpbh[1].Header)
       IN IF connects
          THEN /\ hnd' = [hnd EXCEPT
                            ![g] = [Idle EXCEPT
                                      !.pc = "insert", !.peer = p,
                                      !.hdrs = InsertList(msg,
                                                          dbpbh[1].Height)]]
               /\ lastOp' = lastOp
          ELSE /\ hnd' = hnd
               /\ lastOp' = Dropped(msg[1])
    /\ UNCHANGED <<storeVars, conn, genVars, partial, intr, schedVars,
                   runVars>>

\* handleHeaders, lines 788-799: s.db.BlockHeadersInsert.  Any error,
\* Duplicate included, closes the peer and the handler returns.
HeadersInsert(g, fail) ==
    /\ ~Crashed
    /\ hnd[g].pc = "insert"
    /\ MayFail(fail)
    /\ faults' = Spend(fail)
    /\ LET r == BlockHeadersInsert(pool, hnd[g].hdrs, fail)
       IN /\ fail # "none" => r.err # "Duplicate"
          /\ pool' = r.db
          /\ IF r.err = "nil"
             THEN /\ conn' = conn
                  /\ hnd' = [hnd EXCEPT ![g].pc = "getheaders"]
             ELSE /\ conn' = [conn EXCEPT ![hnd[g].peer] = "closed"]
                  /\ hnd' = [hnd EXCEPT ![g] = Idle]
    /\ UNCHANGED <<genVars, histVars, schedVars, runVars>>

\* handleHeaders, lines 801-810, and getHeaders, lines 247-261: getheaders
\* with the hash of the last header of the batch as block locator is
\* written to the peer; a failing write is logged.
HeadersAsk(g) ==
    /\ ~Crashed
    /\ hnd[g].pc = "getheaders"
    /\ lastOp' = GetHeaders(hnd[g].peer,
                            hnd[g].hdrs[Len(hnd[g].hdrs)].Hash)
    /\ hnd' = [hnd EXCEPT ![g] = Idle]
    /\ UNCHANGED <<storeVars, conn, genVars, partial, intr, schedVars,
                   runVars>>

\* The headers handler after the genesis bootstrap: every session reads
\* messages, headers messages of the tree arrive in any order.
InitHeaders ==
    /\ pool = BootStore
    /\ faults = 0
    /\ hnd = [g \in Handlers |-> Idle]
    /\ conn = [c \in Callers |-> "open"]
    /\ mtx = 0
    /\ insertedGenesis = TRUE
    /\ genesisBlockHeader = <<GenesisRecord>>
    /\ bpc = [c \in Callers |-> IF c \in Peers THEN "ready" ELSE "start"]
    /\ bres = [c \in Callers |->
                 IF c \in Peers THEN [err |-> "nil", bhs |-> <<GenesisRecord>>]
                 ELSE [err |-> "", bhs |-> <<>>]]
    /\ lastOp = NoOp
    /\ partial = FALSE
    /\ intr = <<>>
    /\ peers = Peers
    /\ now = 0
    /\ blocks = [h \in {} |-> h]
    /\ isRunning = TRUE
    /\ run = [r \in Runners |->
                IF r = 1 THEN [pc |-> "wait", err |-> ""] ELSE NotCalled]
    /\ ctx = "live"
    /\ wg = 1
    /\ pm = [pc |-> "loop", of |-> 1]
    /\ sess = [p \in Peers |-> 1]
    /\ peerC = {}
    /\ ping = {}

NextHeaders ==
    \/ \E g \in Handlers, p \in Peers, msg \in HeaderMsgs :
          HeadersLookup(g, p, msg)
    \/ \E g \in Handlers, fail \in BHIFails : HeadersInsert(g, fail)
    \/ \E g \in Handlers : HeadersAsk(g)

SpecHeaders == InitHeaders /\ [][NextHeaders]_vars

\* ------------------------------------- blockPeerAdd without the mutex
\* handleInv reaches randPeerWrite and blockPeerAdd without s.mtx, so the
\* tests of blockPeerAdd and its write to s.blocks are separate steps of
\* goroutines that share the map.

\* randPeerWrite, lines 350-370, and blockPeerAdd, lines 209-214: the loop
\* over s.peers stops at a peer for which the tests of blockPeerAdd pass,
\* or finds none and returns errNoPeers.
InvPeerTest(g, p) ==
    /\ ~Crashed
    /\ hnd[g].pc = "rpw_add"
    /\ p \in Pick(blocks, hashS(Head(hnd[g].bis)))
    /\ hnd' = IF p = 0 THEN NextEntry(g)
              ELSE [hnd EXCEPT ![g].pc = "rpw_put", ![g].peer = p]
    /\ UNCHANGED <<storeVars, conn, genVars, histVars, schedVars, runVars>>

\* The goroutines about to write s.blocks.
Writers == {g \in Handlers : hnd[g].pc = "rpw_put"}

\* blockPeerAdd, lines 215-218, and randPeerWrite, line 371: the entry is
\* written to s.blocks and getdata is written to the peer.  Two goroutines
\* that write the map at once are a data race: both writes take effect in
\* some order, or the runtime ends the process (concurrent map writes).
InvPeerPut(g, abort) ==
    /\ ~Crashed
    /\ hnd[g].pc = "rpw_put"
    /\ abort => Writers # {g}
    /\ IF abort
       THEN /\ bpc' = [c \in Callers |-> "panic"]
            /\ UNCHANGED <<blocks, hnd>>
       ELSE /\ LET hash == hashS(Head(hnd[g].bis))
               IN blocks' = [h \in DOMAIN blocks \cup {hash} |->
                               IF h = hash
                               THEN [peer |-> hnd[g].peer,
                                     expire |-> now + blockTimeout]
                               ELSE blocks[h]]
            /\ hnd' = NextEntry(g)
            /\ bpc' = bpc
    /\ UNCHANGED <<storeVars, conn, mtx, insertedGenesis, genesisBlockHeader,
                   bres, histVars, peers, now, runVars>>

NextRace ==
    \/ \E g \in Handlers, bis \in InvMsgs : RecvInv(g, bis)
    \/ \E g \in Handlers : InvCacheCheck(g)
    \/ \E g \in Handlers, p \in Peers \cup {0} : InvPeerTest(g, p)
    \/ \E g \in Handlers, abort \in BOOLEAN : InvPeerPut(g, abort)
    \/ \E g \in Handlers, hash \in Announced : RecvBlock(g, hash, "none")
    \/ \E g \in Handlers : BlockDelete(g)
    \/ \E g \in Handlers, gone \in SUBSET DOMAIN blocks : Expire(g, gone)
    \/ \E g \in Handlers, ch \in Choices : Download(g, "none", ch)

SpecRace == InitSched /\ [][NextRace]_vars

\* ------------------------------------------- the peer manager and its seeds
\* peerManager with the seed list, the index into it and the buffered
\* channel.  Here sess[a] counts the live peerConnect goroutines of address
\* a, peerC is the channel's buffer, oldest first, and pm carries the seed
\* list, the index x of the next seed and the iterations i left in the
\* connect loop.

\* defaultPeersWanted (64): the peers wanted and the capacity of peerC.
defaultPeersWanted == 2

\* The addresses the seeds resolve to.
MaxAddr == 3

Addresses == 1..MaxAddr

\* Longest list seedForever returns.
MaxSeeds == 2

\* Most peerConnect goroutines alive at a time.
MaxSessions == 3

\* seed, lines 263-309: the addresses of every DNS answer, appended as they
\* come, never empty when seedForever returns them.
SeedLists == UNION {[1..n -> Addresses] : n \in 1..MaxSeeds}

\* The connect loop running whatever s.peers holds.
WantedAlways(active) == defaultPeersWanted

\* peerManager, line 418: the iterations of the connect loop.
Wanted(active) == defaultPeersWanted - active

\* The peerConnect goroutines alive.
RECURSIVE LiveOf(_)
LiveOf(S) ==
    IF S = {} THEN 0
    ELSE LET a == CHOOSE x \in S : TRUE IN sess[a] + LiveOf(S \ {a})

Live == LiveOf(Addresses)

\* peerManager, lines 412-418: the top of the loop, peersLen under s.mtx
\* and the test against peersWanted.
ManagerLoop ==
    /\ pm.pc = "loop"
    /\ mtx = 0
    /\ LET peersActive == Cardinality(peers)
       IN pm' = IF peersActive < defaultPeersWanted
                THEN [pm EXCEPT !.pc = "connect", !.i = Wanted(peersActive)]
                ELSE [pm EXCEPT !.pc = "select"]
    /\ UNCHANGED <<storeVars, chainVars, genVars, histVars, schedVars,
                   isRunning, run, ctx, wg, sess, peerC, ping>>

\* peerManager, lines 419-455: one iteration of the connect loop.  The
\* peer of seeds[x] is put into s.peers under its address, its peerConnect
\* goroutine is started, and past the last seed seedForever gives a new
\* list.
ManagerConnect(seeds) ==
    /\ pm.pc = "connect"
    /\ mtx = 0
    /\ Live < MaxSessions
    /\ LET address == pm.seeds[pm.x]
           last == pm.x >= Len(pm.seeds)
       IN /\ peers' = peers \cup {address}
          /\ sess' = [sess EXCEPT ![address] = @ + 1]
          /\ ~last => seeds = pm.seeds
          /\ pm' = [pm EXCEPT
                      !.seeds = seeds,
                      !.x = IF last THEN 1 ELSE pm.x + 1,
                      !.i = pm.i - 1,
                      !.pc = IF pm.i > 1 THEN "connect" ELSE "select"]
    /\ UNCHANGED <<storeVars, chainVars, genVars, histVars, blocks, now,
                   isRunning, run, ctx, wg, peerC, ping>>

\* peerManager, lines 468-471: an address is received from peerC and
\* peerDelete removes it from s.peers.
ManagerDelete ==
    /\ pm.pc = "select"
    /\ mtx = 0
    /\ peerC # <<>>
    /\ peers' = peers \ {Head(peerC)}
    /\ peerC' = Tail(peerC)
    /\ pm' = [pm EXCEPT !.pc = "loop"]
    /\ UNCHANGED <<storeVars, chainVars, genVars, histVars, blocks, now,
                   isRunning, run, ctx, wg, sess, ping>>

\* peerManager, lines 472-474: the ticker fires and the loop restarts; the
\* ping round it starts changes nothing here.
ManagerWakeup ==
    /\ pm.pc = "select"
    /\ pm' = [pm EXCEPT !.pc = "loop"]
    /\ UNCHANGED <<storeVars, chainVars, genVars, histVars, schedVars,
                   isRunning, run, ctx, wg, sess, peerC, ping>>

\* peerConnect, lines 510-517: a session ends, for whatever reason, and
\* its deferred function sends the address on peerC if the buffer has
\* room; the default case of the select drops it otherwise.
SessionExit(a) ==
    /\ sess[a] > 0
    /\ sess' = [sess EXCEPT ![a] = @ - 1]
    /\ peerC' = IF Len(peerC) < defaultPeersWanted THEN Append(peerC, a)
                ELSE peerC
    /\ UNCHANGED <<storeVars, chainVars, genVars, histVars, schedVars,
                   isRunning, run, ctx, wg, pm, ping>>

\* Run has started peerManager, which is back from its first seedForever.
InitManager ==
    /\ pool = New
    /\ faults = 0
    /\ hnd = [g \in Handlers |-> Idle]
    /\ conn = [c \in Callers |-> "nil"]
    /\ mtx = 0
    /\ insertedGenesis = FALSE
    /\ genesisBlockHeader = <<>>
    /\ bpc = [c \in Callers |-> "start"]
    /\ bres = [c \in Callers |-> [err |-> "", bhs |-> <<>>]]
    /\ lastOp = NoOp
    /\ partial = FALSE
    /\ intr = <<>>
    /\ peers = {}
    /\ now = 0
    /\ blocks = [h \in {} |-> h]
    /\ isRunning = TRUE
    /\ run = [r \in Runners |->
                IF r = 1 THEN [pc |-> "wait", err |-> ""] ELSE NotCalled]
    /\ ctx = "live"
    /\ wg = 1
    /\ \E seeds \in SeedLists :
          pm = [pc |-> "loop", of |-> 1, seeds |-> seeds, x |-> 1, i |-> 0]
    /\ sess = [a \in Addresses |-> 0]
    /\ peerC = <<>>
    /\ ping = {}

NextManager ==
    \/ ManagerLoop
    \/ \E seeds \in SeedLists : ManagerConnect(seeds)
    \/ ManagerDelete
    \/ ManagerWakeup
    \/ \E a \in Addresses : SessionExit(a)

SpecManager == InitManager /\ [][NextManager]_vars

\* --------------------------------------------- the order of the handlers
\* The handlers in progress, the records of the others as they are once
\* handler g has been started again.
Forget(g, h) ==
    IF hnd[h] = Idle THEN hnd[h]
    ELSE [hnd[h] EXCEPT !.after = @ \ {g}]

\* peerConnect, lines 586-622: the read loop of session p reads an inv
\* message and starts handleInv in a goroutine of its own, then reads on.
\* after keeps the handlers of earlier messages of the same peer that are
\* still in progress.
RecvInvFrom(g, p, bis) ==
    /\ Reading(p)
    /\ hnd[g] = Idle
    /\ hnd' = [h \in Handlers |->
                 IF h = g
                 THEN [pc |-> "rpw_check", peer |-> p, hdrs |-> <<>>,
                       bis |-> bis, used |-> 0,
                       after |-> {x \in Handlers \ {g} :
                                    hnd[x] # Idle /\ hnd[x].peer = p}]
                 ELSE Forget(g, h)]
    /\ UNCHANGED <<storeVars, conn, genVars, histVars, schedVars, runVars>>

NextOrder ==
    \/ \E g \in Handlers, p \in Peers, bis \in InvMsgs : RecvInvFrom(g, p, bis)
    \/ \E g \in Handlers : InvCacheCheck(g)
    \/ \E g \in Handlers, p \in Peers \cup {0} : InvAssign(g, p)

SpecOrder == InitSched /\ [][NextOrder]_vars

\* ------------------------------------------------- the scheduler on the clock
\* The sweep removing an entry at its expire time already.
ExpiredAtOrAfter(blks, t) == {h \in DOMAIN blks : t >= blks[h].expire}

\* blockPeerExpire, lines 230-236: the entries now.After(v.expire) holds of.
Expired(blks, t) == {h \in DOMAIN blks : t > blks[h].expire}

\* The clock goes on.
Tick ==
    /\ now < MaxTime
    /\ now' = now + 1
    /\ UNCHANGED <<storeVars, chainVars, genVars, histVars, peers, blocks,
                   runVars>>

\* checkBlockCache, lines 949-953, on the clock: the sweep under s.mtx of
\* the entries that have expired now.  closed keeps the peers whose
\* connection this sweep closed, for the download that follows it.
Sweep(g) ==
    /\ ~Crashed
    /\ hnd[g].pc = "expire"
    /\ mtx = 0
    /\ LET r == blockPeerExpire(blocks, Expired(blocks, now))
           used == Cardinality(DOMAIN r.blocks)
       IN /\ blocks' = r.blocks
          /\ conn' = [c \in Callers |->
                        IF c \in r.closed THEN "closed" ELSE conn[c]]
          /\ IF defaultPendingBlocks - used <= 0
             THEN hnd' = [hnd EXCEPT ![g] = Idle]
             ELSE hnd' = [hnd EXCEPT
                            ![g] = [pc |-> "download", peer |-> 0,
                                    hdrs |-> <<>>, bis |-> <<>>,
                                    used |-> used, closed |-> r.closed]]
    /\ UNCHANGED <<storeVars, genVars, histVars, peers, now, runVars>>

\* peerConnect, lines 627-633, and peerManager, lines 468-471: the session
\* of a closed connection ends and its address leaves s.peers.
PeerExit(p) ==
    /\ p \in peers
    /\ conn[p] = "closed"
    /\ mtx = 0
    /\ peers' = peers \ {p}
    /\ UNCHANGED <<storeVars, chainVars, genVars, histVars, blocks, now,
                   runVars>>

\* peerManager, lines 426-434: a new peer, not connected yet, enters
\* s.peers.
PeerAdd(p) ==
    /\ p \notin peers
    /\ mtx = 0
    /\ peers' = peers \cup {p}
    /\ conn' = [conn EXCEPT ![p] = "nil"]
    /\ UNCHANGED <<storeVars, hnd, genVars, histVars, blocks, now, runVars>>

\* peerConnect, lines 519-559: the dial of a peer of s.peers succeeds and
\* its connection is set.
PeerDialled(p) ==
    /\ p \in peers
    /\ conn[p] = "nil"
    /\ conn' = [conn EXCEPT ![p] = "open"]
    /\ UNCHANGED <<storeVars, hnd, genVars, histVars, schedVars, runVars>>

NextExpire ==
    \/ Tick
    \/ \E g \in Handlers : RecvEmptyHeaders(g)
    \/ \E g \in Handlers, hash \in Announced : RecvBlock(g, hash, "none")
    \/ \E g \in Handlers : BlockDelete(g)
    \/ \E g \in Handlers : Sweep(g)
    \/ \E g \in Handlers, fail \in {"none", "read"}, ch \in Choices :
          Download(g, fail, ch)
    \/ \E p \in Peers : PeerExit(p)
    \/ \E p \in Peers : PeerAdd(p)
    \/ \E p \in Peers : PeerDialled(p)

SpecExpire == InitSched /\ [][NextExpire]_vars

\* ------------------------------------------------------------------ Run
\* The value the running flag takes and the result of testAndSetRunning
\* always reporting a change.
testAndSetRunningBlind(old, b) == [isRunning |-> b, changed |-> TRUE]

\* testAndSetRunning, lines 641-647: the flag is set to b; the result tells
\* whether that changed it.
testAndSetRunning(old, b) == [isRunning |-> b, changed |-> old # b]

\* The peerManager goroutine before any Run.
NoManager == [pc |-> "off", of |-> 0]

\* The positions of a Run between its testAndSetRunning(true) and the
\* deferred testAndSetRunning(false).
ActivePcs == {"open", "wait", "drain", "exit"}

\* Run, lines 1159-1161: testAndSetRunning(true); no change means another
\* Run is in progress, and the call returns before any defer is registered.
RunEnter(r) ==
    /\ run[r].pc = "idle"
    /\ mtx = 0
    /\ LET t == testAndSetRunning(isRunning, TRUE)
       IN /\ isRunning' = t.isRunning
          /\ run' = [run EXCEPT
                       ![r] = IF t.changed THEN [pc |-> "open", err |-> ""]
                              ELSE [pc |-> "returned",
                                    err |-> "already running"]]
    /\ UNCHANGED <<storeVars, chainVars, genVars, histVars, schedVars, ctx, wg,
                   pm, sess, peerC, ping>>

\* Run, lines 1164-1220: the context, level.New, and the peerManager
\* goroutine under the wait group.  A store that does not open returns
\* through the defers.
RunOpen(r, fail) ==
    /\ run[r].pc = "open"
    /\ MayFail(fail)
    /\ faults' = Spend(fail)
    /\ IF fail = "open"
       THEN /\ run' = [run EXCEPT ![r] = [pc |-> "exit", err |-> "open"]]
            /\ UNCHANGED <<ctx, wg, pm, peerC>>
       ELSE /\ run' = [run EXCEPT ![r].pc = "wait"]
            /\ ctx' = "live"
            /\ wg' = wg + 1
            /\ pm' = [pc |-> "loop", of |-> r]
            /\ peerC' = {}
    /\ UNCHANGED <<pool, chainVars, genVars, histVars, schedVars, isRunning,
                   sess, ping>>

\* The caller of Run cancels the context it passed.
CtxCancel ==
    /\ \E r \in Runners : run[r].pc = "wait"
    /\ ctx = "live"
    /\ ctx' = "cancelled"
    /\ UNCHANGED <<storeVars, chainVars, genVars, histVars, schedVars,
                   isRunning, run, wg, pm, sess, peerC, ping>>

\* peerManager, lines 411-441: peerAdd and go s.peerConnect for an address
\* that is not in s.peers.  The goroutine is not added to s.wg.
PMConnect(p) ==
    /\ pm.pc = "loop"
    /\ mtx = 0
    /\ p \notin peers
    /\ sess[p] = 0
    /\ peers' = peers \cup {p}
    /\ sess' = [sess EXCEPT ![p] = pm.of]
    /\ UNCHANGED <<storeVars, chainVars, genVars, histVars, blocks, now, isRunning,
                   run, ctx, wg, pm, peerC, ping>>

\* peerManager, lines 468-471: an address read from peerC leaves s.peers.
PMDelete(p) ==
    /\ pm.pc = "loop"
    /\ mtx = 0
    /\ p \in peerC
    /\ peerC' = peerC \ {p}
    /\ peers' = peers \ {p}
    /\ UNCHANGED <<storeVars, chainVars, genVars, histVars, blocks, now, isRunning,
                   run, ctx, wg, pm, sess, ping>>

\* peerManager, lines 472-474: the ticker fires, go s.pingAllPeers.  The
\* goroutine is not added to s.wg.
PMPing ==
    /\ pm.pc = "loop"
    /\ pm.of \notin ping
    /\ ping' = ping \cup {pm.of}
    /\ UNCHANGED <<storeVars, chainVars, genVars, histVars, schedVars,
                   isRunning, run, ctx, wg, pm, sess, peerC>>

\* peerManager, lines 466-467, and Run, lines 1211-1220: the context is
\* done, peerManager returns and the deferred s.wg.Done runs.
PMExit ==
    /\ pm.pc = "loop"
    /\ ctx = "cancelled"
    /\ pm' = [pm EXCEPT !.pc = "done"]
    /\ wg' = wg - 1
    /\ UNCHANGED <<storeVars, chainVars, genVars, histVars, schedVars,
                   isRunning, run, ctx, sess, peerC, ping>>

\* pingAllPeers, lines 479-506: the round ends.
PingDone(r) ==
    /\ r \in ping
    /\ mtx = 0
    /\ ping' = ping \ {r}
    /\ UNCHANGED <<storeVars, chainVars, genVars, histVars, schedVars,
                   isRunning, run, ctx, wg, pm, sess, peerC>>

\* peerConnect, lines 508-517 and 521-601: the session ends, on a failed
\* connect, a failed read or a done context seen between two reads, and
\* signals its address on the peerC of the peerManager that started it.
\* It does not end inside blockHeadersBest.  The peer object is gone with
\* it: a later session of the address starts with a new one.
SessionEnd(p) ==
    /\ sess[p] # 0
    /\ bpc[p] \in {"start", "ready"}
    /\ sess' = [sess EXCEPT ![p] = 0]
    /\ peerC' = IF sess[p] = pm.of THEN peerC \cup {p} ELSE peerC
    /\ conn' = [conn EXCEPT ![p] = "nil"]
    /\ bpc' = [bpc EXCEPT ![p] = "start"]
    /\ bres' = [bres EXCEPT ![p] = [err |-> "", bhs |-> <<>>]]
    /\ UNCHANGED <<storeVars, hnd, mtx, insertedGenesis, genesisBlockHeader,
                   histVars, schedVars, isRunning, run, ctx, wg, pm, ping>>

\* peerConnect, lines 519-559: p.connect succeeds.
SessionConnect(p) ==
    /\ sess[p] # 0
    /\ conn[p] = "nil"
    /\ conn' = [conn EXCEPT ![p] = "open"]
    /\ UNCHANGED <<storeVars, hnd, genVars, histVars, schedVars, runVars>>

\* Run, lines 1222-1228: the select wakes on the done context, or on the
\* error peerManager returned, and cancels.
RunWake(r) ==
    /\ run[r].pc = "wait"
    /\ ctx = "cancelled"
    /\ run' = [run EXCEPT ![r] = [pc |-> "drain", err |-> "canceled"]]
    /\ UNCHANGED <<storeVars, chainVars, genVars, histVars, schedVars,
                   isRunning, ctx, wg, pm, sess, peerC, ping>>

\* Run, lines 1230-1231: s.wg.Wait returns once the counter is 0.
RunDrain(r) ==
    /\ run[r].pc = "drain"
    /\ wg = 0
    /\ run' = [run EXCEPT ![r].pc = "exit"]
    /\ UNCHANGED <<storeVars, chainVars, genVars, histVars, schedVars,
                   isRunning, ctx, wg, pm, sess, peerC, ping>>

\* Run, lines 1162, 1165, 1181 and 1234: the defers, testAndSetRunning(false)
\* last, and the return.
RunExit(r) ==
    /\ run[r].pc = "exit"
    /\ mtx = 0
    /\ isRunning' = testAndSetRunning(isRunning, FALSE).isRunning
    /\ run' = [run EXCEPT ![r].pc = "returned"]
    /\ UNCHANGED <<storeVars, chainVars, genVars, histVars, schedVars, ctx, wg,
                   pm, sess, peerC, ping>>

\* NewServer: no Run called, no task started.
InitRun ==
    /\ pool = New
    /\ faults = 0
    /\ hnd = [g \in Handlers |-> Idle]
    /\ conn = [c \in Callers |-> "nil"]
    /\ mtx = 0
    /\ insertedGenesis = FALSE
    /\ genesisBlockHeader = <<>>
    /\ bpc = [c \in Callers |-> "start"]
    /\ bres = [c \in Callers |-> [err |-> "", bhs |-> <<>>]]
    /\ lastOp = NoOp
    /\ partial = FALSE
    /\ intr = <<>>
    /\ peers = {}
    /\ now = 0
    /\ blocks = [h \in {} |-> h]
    /\ isRunning = FALSE
    /\ run = [r \in Runners |-> NotCalled]
    /\ ctx = "live"
    /\ wg = 0
    /\ pm = NoManager
    /\ sess = [p \in Peers |-> 0]
    /\ peerC = {}
    /\ ping = {}

NextRun ==
    \/ \E r \in Runners : RunEnter(r)
    \/ \E r \in Runners, fail \in {"none", "open"} : RunOpen(r, fail)
    \/ CtxCancel
    \/ \E p \in Peers : PMConnect(p)
    \/ \E p \in Peers : PMDelete(p)
    \/ PMPing
    \/ PMExit
    \/ \E r \in Runners : PingDone(r)
    \/ \E p \in Peers : SessionEnd(p)
    \/ \E r \in Runners : RunWake(r)
    \/ \E r \in Runners : RunDrain(r)
    \/ \E r \in Runners : RunExit(r)

SpecRun == InitRun /\ [][NextRun]_vars

\* peerConnect, lines 519-545 and 510-517: connect fails.  The goroutine
\* that calls PeerDelete for the address is started, peerConnect returns
\* and signals the address on peerC; p.conn was never set.  The goroutine
\* does nothing but that call, which is taken with the return.
SessionDialFail(p) ==
    /\ sess[p] # 0
    /\ conn[p] = "nil"
    /\ bpc[p] = "start"
    /\ LET r == PeerDelete(pool, p)
       IN /\ pool' = r.db
          /\ lastOp' = [NoOp EXCEPT !.op = "PeerDelete", !.addr = p,
                                     !.err = r.err, !.pre = pool]
    /\ sess' = [sess EXCEPT ![p] = 0]
    /\ peerC' = IF sess[p] = pm.of THEN peerC \cup {p} ELSE peerC
    /\ UNCHANGED <<faults, chainVars, genVars, partial, intr, schedVars,
                   isRunning, run, ctx, wg, pm, ping>>

\* peerConnect, lines 611-614, and handleAddr, lines 657-672: a connected
\* session reads an addr message and hands its address to PeersInsert.
SessionAddr(p, a) ==
    /\ sess[p] # 0
    /\ Reading(p)
    /\ LET r == PeersInsert(pool, {a})
       IN /\ pool' = r.db
          /\ lastOp' = [NoOp EXCEPT !.op = "PeersInsert", !.addr = a,
                                     !.err = r.err, !.pre = pool]
    /\ UNCHANGED <<faults, chainVars, genVars, partial, intr, schedVars,
                   runVars>>

\* A session that has connected ends.
SessionClose(p) == conn[p] # "nil" /\ SessionEnd(p)

\* Run with sessions whose connect may fail and whose peers send addr
\* messages.
NextPeers ==
    \/ \E r \in Runners : RunEnter(r)
    \/ \E r \in Runners : RunOpen(r, "none")
    \/ CtxCancel
    \/ \E p \in Peers : PMConnect(p)
    \/ \E p \in Peers : PMDelete(p)
    \/ PMExit
    \/ \E p \in Peers : SessionConnect(p)
    \/ \E p \in Peers : SessionDialFail(p)
    \/ \E p \in Peers : BestRead(p, "none")
    \/ \E p \in Peers : InsertGenesisLock(p)
    \/ \E p \in Peers : InsertGenesisHeader(p, "none")
    \/ \E p \in Peers : InsertGenesisBlock(p, "none")
    \/ \E p, a \in Peers : SessionAddr(p, a)
    \/ \E p \in Peers : SessionClose(p)
    \/ \E r \in Runners : RunWake(r)
    \/ \E r \in Runners : RunDrain(r)
    \/ \E r \in Runners : RunExit(r)

SpecPeers == InitRun /\ [][NextPeers]_vars

\* Run with the sessions it starts going through blockHeadersBest, and no
\* failing store call.
NextLive ==
    \/ \E r \in Runners : RunEnter(r)
    \/ \E r \in Runners : RunOpen(r, "none")
    \/ CtxCancel
    \/ \E p \in Peers : PMConnect(p)
    \/ \E p \in Peers : PMDelete(p)
    \/ PMExit
    \/ \E p \in Peers : SessionConnect(p)
    \/ \E p \in Peers : BestRead(p, "none")
    \/ \E p \in Peers : InsertGenesisLock(p)
    \/ \E p \in Peers : InsertGenesisHeader(p, "none")
    \/ \E p \in Peers : InsertGenesisBlock(p, "none")
    \/ \E p \in Peers : SessionEnd(p)
    \/ \E r \in Runners : RunWake(r)
    \/ \E r \in Runners : RunDrain(r)
    \/ \E r \in Runners : RunExit(r)

\* The goroutines are scheduled and store calls return: a step of Run, of
\* peerManager or of a session inside blockHeadersBest that stays possible
\* is taken.  Nothing is assumed of the peers, which may never send or
\* close, or of the caller of Run.
SpecLive ==
    /\ InitRun
    /\ [][NextLive]_vars
    /\ \A r \in Runners : WF_vars(RunWake(r))
    /\ \A r \in Runners : WF_vars(RunDrain(r))
    /\ \A r \in Runners : WF_vars(RunExit(r))
    /\ WF_vars(PMExit)
    /\ \A p \in Peers : WF_vars(InsertGenesisLock(p))
    /\ \A p \in Peers : WF_vars(InsertGenesisHeader(p, "none"))
    /\ \A p \in Peers : WF_vars(InsertGenesisBlock(p, "none"))

\* ------------------------------------------------------------------ claims
\* The hashes with a header of height above 0 and no block.
HeadersWithoutBlock(db) ==
    {h \in DOMAIN db.BlockHeadersDB :
        db.BlockHeadersDB[h].Height > 0 /\ h \notin db.BlocksDB}

\* Missing-block completeness of a store.
MissingComplete(db) ==
    /\ MissingHashes(db) = HeadersWithoutBlock(db)
    /\ \A k \in db.BlocksMissingDB :
          LET e == keyToHeightHash(k)
          IN /\ e.Hash \in DOMAIN db.BlockHeadersDB
             /\ db.BlockHeadersDB[e.Hash].Height = e.Height

C3_Connectivity ==
    \A h \in DOMAIN pool.BlockHeadersDB :
        LET bh == pool.BlockHeadersDB[h]
        IN bh.Height > 0 =>
            /\ PrevBlock(bh.Header) \in DOMAIN pool.BlockHeadersDB
            /\ pool.BlockHeadersDB[PrevBlock(bh.Header)].Height = bh.Height - 1

C3_Witness ==
    /\ \E h \in DOMAIN pool.BlockHeadersDB : pool.BlockHeadersDB[h].Height = 2
    /\ \E g \in Handlers : hnd[g].pc = "insert"

\* Two stores agree on the BlockHeaders namespace, "last" included.
SameHeaders(a, b) ==
    a.BlockHeadersDB = b.BlockHeadersDB /\ a.bhsLastKey = b.bhsLastKey

\* C5: inserting a batch whose records are all stored, as they are once the
\* batch has been inserted, returns Duplicate and leaves BlockHeaders,
\* "last" and BlocksMissing as they were.
C5_Idempotence ==
    (lastOp.op = "BlockHeadersInsert" /\ lastOp.again) =>
        /\ lastOp.err = "Duplicate"
        /\ SameHeaders(pool, lastOp.pre)
        /\ pool.BlocksMissingDB = lastOp.pre.BlocksMissingDB

C5_Witness ==
    /\ lastOp.op = "BlockHeadersInsert"
    /\ lastOp.again
    /\ Len(lastOp.hdrs) > 1

\* C6: a BlockInsert run to completion after an interrupted BlockInsert of
\* the same block leaves the three namespaces as an uninterrupted run would
\* have.
C6_RerunSameAsUninterrupted == lastOp.rerun => pool = intr[1].expect

C6_Witness == lastOp.rerun /\ pool # lastOp.pre

\* C7 as stated: a BlockHeadersInsert that returns an error leaves
\* BlockHeaders and BlocksMissing as they were.
C7_AllOrNothing ==
    (lastOp.op = "BlockHeadersInsert" /\ lastOp.err # "nil") =>
        /\ SameHeaders(pool, lastOp.pre)
        /\ pool.BlocksMissingDB = lastOp.pre.BlocksMissingDB

\* C7, amended: a BlockHeadersInsert that returns an error leaves
\* BlockHeaders as it was; it leaves BlocksMissing as it was unless the
\* error is the BlockHeaders commit failing, and then BlocksMissing holds
\* the keys of the batch as well.
C7_HeadersAllOrNothing ==
    (lastOp.op = "BlockHeadersInsert" /\ lastOp.err # "nil") =>
        /\ SameHeaders(pool, lastOp.pre)
        /\ IF lastOp.fail = "bhs"
           THEN pool.BlocksMissingDB =
                    lastOp.pre.BlocksMissingDB \cup bmBatch(lastOp.hdrs)
           ELSE pool.BlocksMissingDB = lastOp.pre.BlocksMissingDB

C7_Witness ==
    /\ lastOp.op = "BlockHeadersInsert"
    /\ lastOp.fail = "bhs"
    /\ pool.BlocksMissingDB # lastOp.pre.BlocksMissingDB

\* C4 as stated: when the callers of blockHeadersBest that raced on an
\* unset store can go no further, and no store call failed, genesis is
\* stored, header and block, and every caller has returned the genesis
\* header as the single best tip.
C4_EveryCallerReturnsGenesis ==
    (faults = 0 /\ ~ENABLED NextGenesis) =>
        /\ pool.BlockHeadersDB = [h \in {GenesisHash} |-> GenesisRecord]
        /\ pool.BlocksDB = {GenesisHash}
        /\ \A c \in Callers :
              /\ bpc[c] = "ready"
              /\ bres[c] = [err |-> "nil", bhs |-> <<GenesisRecord>>]

\* C1 as stated: the pending-blocks map never holds more than
\* defaultPendingBlocks entries.
C1_PendingBound == Cardinality(DOMAIN blocks) <= defaultPendingBlocks

\* C8 as stated, for the ticks that find a free slot: a tick that runs
\* while every session in s.peers is connected and some hash of
\* BlocksMissing has no pending entry writes getdata for such a hash.
C8_TickIssuesGetData ==
    [][\A g \in Handlers :
          (/\ hnd[g].pc = "download" /\ hnd'[g] = Idle
           /\ faults' = faults
           /\ peers # {} /\ \A p \in peers : conn[p] = "open"
           /\ Unassigned(blocks) # {})
          => \E h \in Unassigned(blocks) : h \in DOMAIN blocks']_vars

\* C9: a call of Run while the server is running returns "already running"
\* and leaves the flag set; a call while it is not running sets the flag
\* and goes on; the flag is set exactly while a Run is between the two; and
\* a Run that returns after it went on leaves the flag clear.
C9_RunReentrancy ==
    [][/\ \A r \in Runners :
            (run[r].pc = "idle" /\ run'[r].pc # "idle") =>
                /\ isRunning'
                /\ run'[r] = IF isRunning
                             THEN [pc |-> "returned", err |-> "already running"]
                             ELSE [pc |-> "open", err |-> ""]
       /\ \A r \in Runners :
            (run[r].pc = "exit" /\ run'[r].pc = "returned") => ~isRunning'
       /\ isRunning' = (\E r \in Runners : run'[r].pc \in ActivePcs)]_vars

C9_Witness ==
    /\ isRunning
    /\ \E r, q \in Runners :
          /\ run[r] = [pc |-> "returned", err |-> "already running"]
          /\ run[q].pc = "wait"

\* C10 as stated: once a Run that started the service has returned, the
\* peerManager, the sessions and the ping rounds it started have ended.
C10_RunWaitsForTasks ==
    \A r \in Runners :
        (run[r].pc = "returned" /\ run[r].err # "already running") =>
            /\ pm.of = r => pm.pc = "done"
            /\ \A p \in Peers : sess[p] # r
            /\ r \notin ping

\* C11 as stated: a Run whose context is cancelled eventually returns.
C11_RunReturnsAfterCancel ==
    \A r \in Runners :
        (run[r].pc \in {"wait", "drain", "exit"} /\ ctx = "cancelled")
            ~> (run[r].pc = "returned")

\* An entry comes before another in (height, hash) order.
LexLess(a, b) ==
    a.Height < b.Height \/ (a.Height = b.Height /\ a.Hash < b.Hash)

\* C12: for every count of at least 1, BlocksMissing returns entries of the
\* namespace, as many as asked for or all of them, in increasing (height,
\* hash) order, and every entry it leaves out comes after all it returns.
C12_LowestInOrder ==
    \A count \in 1..HashSpace :
        LET r == BlocksMissing(pool, count)
            all == {keyToHeightHash(x) : x \in pool.BlocksMissingDB}
            got == {r[i] : i \in 1..Len(r)}
        IN /\ Len(r) = IF Cardinality(all) < count THEN Cardinality(all)
                       ELSE count
           /\ got \subseteq all
           /\ \A i, j \in 1..Len(r) : i < j => LexLess(r[i], r[j])
           /\ \A e \in all \ got : \A i \in 1..Len(r) : LexLess(r[i], e)

C12_Witness ==
    /\ Cardinality(pool.BlocksMissingDB) = 3
    /\ BlocksMissing(pool, 2) =
          <<[Height |-> 1, Hash |-> 1], [Height |-> 1, Hash |-> 3]>>

\* The caller is the only one that has called blockHeadersBest.
SingleCall(c) == \A d \in Callers \ {c} : bpc[d] = "start"

\* C13: a single call of blockHeadersBest on a fresh store that meets no
\* storage failure does not fail, and when it has returned it has returned
\* one entry, height 0 with the genesis hash, the store holds the genesis
\* header and the genesis block, and BlocksMissing is empty.
C13_SingleCallInsertsGenesis ==
    \A c \in Callers :
        SingleCall(c) =>
            /\ faults = 0 => bpc[c] # "panic"
            /\ bpc[c] = "ready" =>
                  /\ bres[c].err = "nil"
                  /\ Len(bres[c].bhs) = 1
                  /\ bres[c].bhs[1].Height = 0
                  /\ bres[c].bhs[1].Hash = GenesisHash
                  /\ BlockHeaderByHash(pool, GenesisHash) =
                        <<BlockHeader(GenesisHash, 0)>>
                  /\ GenesisHash \in pool.BlocksDB
                  /\ pool.BlocksMissingDB = {}

C13_Witness ==
    /\ SingleCall(1)
    /\ bpc[1] = "ready"
    /\ mtx = 0
    /\ GenesisHash \in pool.BlocksDB

Unconnected(msg, db) ==
    \/ BlockHeaderByHash(db, PrevBlock(msg[1])) = <<>>
    \/ \E i \in 2..Len(msg) : PrevBlock(msg[i]) # msg[i - 1]

\* C15: when handleHeaders has handled a message with a header that does
\* not connect, BlockHeaders, "last" and BlocksMissing are as they were
\* before the message, the headers before the mismatch included.
C15_UnconnectedWritesNothing ==
    (/\ lastOp.op \in {"handleHeaders", "BlockHeadersInsert"}
     /\ Len(lastOp.msg) > 0
     /\ Unconnected(lastOp.msg, lastOp.pre)) =>
        /\ lastOp.op = "handleHeaders"
        /\ SameHeaders(pool, lastOp.pre)
        /\ pool.BlocksMissingDB = lastOp.pre.BlocksMissingDB

C15_Witness ==
    /\ lastOp.op = "handleHeaders"
    /\ Len(lastOp.msg) = 2
    /\ BlockHeaderByHash(lastOp.pre, PrevBlock(lastOp.msg[1])) # <<>>
    /\ PrevBlock(lastOp.msg[2]) # lastOp.msg[1]
    /\ BlockHeaderByHash(pool, lastOp.msg[1]) = <<>>

\* C16: a BlockInsert of a block whose header is stored, meeting no storage
\* failure, returns nil and the height of the header; BlocksMissing loses
\* the key of that height and hash and nothing else, Blocks gains the hash
\* and nothing else, BlockHeaders and "last" are as they were.
C16_BlockInsertEffect ==
    (/\ lastOp.op = "BlockInsert"
     /\ lastOp.fail = "none"
     /\ BlockHeaderByHash(lastOp.pre, lastOp.hash) # <<>>) =>
        LET pre == lastOp.pre
            H == pre.BlockHeadersDB[lastOp.hash].Height
        IN /\ lastOp.err = "nil"
           /\ lastOp.height = H
           /\ pool.BlocksMissingDB =
                 pre.BlocksMissingDB \ {heightHashToKey(H, lastOp.hash)}
           /\ pool.BlocksDB = pre.BlocksDB \cup {lastOp.hash}
           /\ SameHeaders(pool, pre)

C16_Witness ==
    /\ lastOp.op = "BlockInsert"
    /\ lastOp.err = "nil"
    /\ lastOp.height = 2
    /\ Cardinality(lastOp.pre.BlocksMissingDB) = 3
    /\ Cardinality(pool.BlocksMissingDB) = 2

\* C17: the sweep of blockPeerExpire at time now leaves no entry whose
\* expire time is before now, leaves every entry whose expire time is now
\* or later as it was, adds none, and has closed the connection of every
\* peer of s.peers that owned a removed entry and had a connection.
C17_SweepRemovesExpired ==
    [][\A g \in Handlers :
          (hnd[g].pc = "expire" /\ hnd'[g].pc # "expire") =>
             /\ DOMAIN blocks' \subseteq DOMAIN blocks
             /\ \A h \in DOMAIN blocks' : ~(blocks'[h].expire < now)
             /\ \A h \in DOMAIN blocks :
                   blocks[h].expire >= now =>
                       h \in DOMAIN blocks' /\ blocks'[h] = blocks[h]
             /\ \A h \in DOMAIN blocks \ DOMAIN blocks' :
                   (blocks[h].peer \in peers /\ conn[blocks[h].peer] # "nil")
                       => conn'[blocks[h].peer] = "closed"]_vars

C17_Witness ==
    \E g \in Handlers :
        /\ hnd[g].pc = "download"
        /\ hnd[g].closed # {}
        /\ \E h \in DOMAIN blocks : blocks[h].expire = now

\* C18 as stated: when the sweep of a tick has closed a peer and another
\* peer of s.peers has an open connection, the download of that tick
\* assigns no hash to the peer the sweep closed.
C18_NotToClosedPeer ==
    [][\A g \in Handlers :
          (/\ hnd[g].pc = "download"
           /\ hnd'[g].pc = "idle"
           /\ \E q \in peers \ hnd[g].closed : conn[q] = "open") =>
              \A h \in DOMAIN blocks' \ DOMAIN blocks :
                  blocks'[h].peer \notin hnd[g].closed]_vars

C20_MapsUnderMutex ==
    [][\A g \in Handlers :
          (mtx = HandlerTask(g) /\ mtx' = mtx /\ blocks' # blocks) =>
              hnd'[g] # hnd[g]]_vars

\* C21 as stated, for checkBlockCache: a handler that holds s.mtx has called
\* no store operation and written to no connection since it took it.
C21_NoIOUnderMutex ==
    \A g \in Handlers :
        (mtx = HandlerTask(g) /\ hnd[g].pc = "dl_unlock") =>
            (~hnd[g].read /\ hnd[g].sent = {})

\* The place of a namespace in the order BlockHeaders, BlocksMissing,
\* Blocks.
Rank(ns) == IF ns = "bhs" THEN 1 ELSE IF ns = "bm" THEN 2 ELSE 3

\* C22: the transactions a call has open are always the first ones of the
\* order BlockHeaders, BlocksMissing, Blocks that it opens, so it opens in
\* that order and lets go in the reverse order; and whenever calls are in
\* progress one of them can take its next step.
C22_OrderedNoDeadlock ==
    LET calls == {g \in Handlers : hnd[g] # Idle}
    IN /\ \A g \in calls :
             \A i, j \in 1..Len(hnd[g].held) :
                 i < j => Rank(hnd[g].held[i]) < Rank(hnd[g].held[j])
       /\ \A g \in calls :
             hnd[g].pc # "open" =>
                 \A ns \in {"bhs", "bm", "b"} :
                     (\E i \in 1..Len(hnd[g].held) : hnd[g].held[i] = ns) =>
                         \A i \in 1..Len(OpenOrder(hnd[g].op)) :
                             Rank(OpenOrder(hnd[g].op)[i]) < Rank(ns) =>
                                 \E k \in 1..Len(hnd[g].held) :
                                     hnd[g].held[k] = OpenOrder(hnd[g].op)[i]
       /\ calls # {} =>
             \E g \in calls :
                 \/ hnd[g].pc # "open"
                 \/ Head(hnd[g].todo) \notin HeldByOthers(g)

C22_Witness ==
    \E g, h \in Handlers :
        /\ hnd[g] # Idle /\ hnd[h] # Idle
        /\ hnd[g].op = "BlockInsert" /\ Len(hnd[g].held) = 3
        /\ hnd[h].op = "BlockHeadersInsert" /\ hnd[h].pc = "open"
        /\ Head(hnd[h].todo) \in HeldByOthers(h)

\* C23 as stated: the handler of a message changes the pending-blocks map
\* or the store only when no handler of an earlier message of the same
\* peer is still in progress.
C23_InOrderOfArrival ==
    [][\A g \in Handlers :
          (/\ hnd[g] # Idle
           /\ hnd'[g] # hnd[g]
           /\ (blocks' # blocks \/ pool' # pool)) =>
              \A h \in hnd[g].after : hnd[h] = Idle]_vars

\* C24 as stated: a store error met by a peer session, the failing read of
\* the best tip right after connect included, never aborts the process.
C24_StoreErrorEndsSessionOnly ==
    \A c \in Peers : bres[c].err = "error" => bpc[c] # "panic"

\* C25 as stated: for every limit from 0 up and every state of the store,
\* BlocksMissing returns min(limit, number of BlocksMissing keys) entries.
C25_MinOfLimitAndMarkers ==
    \A count \in 0..(HashSpace + 1) :
        LET n == Cardinality(pool.BlocksMissingDB)
        IN Len(BlocksMissing(pool, count)) = IF count < n THEN count ELSE n

\* C26: BlockInsert for a hash that has no BlockHeaders record returns
\* NotFound and changes no namespace; handleBlock then removes the hash
\* from the pending-blocks map, goes on to checkBlockCache, and the process
\* is not aborted.
C26_NotFoundThenRemoved ==
    [][\A g \in Handlers :
          /\ (/\ hnd[g].pc = "insert"
              /\ hnd'[g] # hnd[g]
              /\ hnd[g].bis[1] \notin DOMAIN pool.BlockHeadersDB) =>
                 (/\ pool' = pool
                  /\ hnd'[g].pc = "delete"
                  /\ hnd'[g].err = "NotFound"
                  /\ hnd'[g].bis = hnd[g].bis
                  /\ ~Crashed')
          /\ (/\ hnd[g].pc = "delete"
              /\ hnd'[g] # hnd[g]
              /\ hnd[g].err = "NotFound") =>
                 (/\ hashS(hnd[g].bis[1]) \notin DOMAIN blocks'
                  /\ hnd'[g].pc = "expire"
                  /\ pool' = pool
                  /\ ~Crashed')]_vars

C26_Witness ==
    \E g \in Handlers :
        /\ hnd[g].pc = "delete"
        /\ hnd[g].err = "NotFound"
        /\ hnd[g].bis[1] \notin DOMAIN pool.BlockHeadersDB
        /\ hashS(hnd[g].bis[1]) \in DOMAIN blocks
        /\ pool = PartStore

\* C29 as stated: the handler of every inbound block removes the hash from
\* the pending-blocks map after BlockInsert returned and then runs
\* checkBlockCache; it ends only from checkBlockCache.
C29_EveryBlockRemovedThenTick ==
    [][\A g \in Handlers :
          /\ hnd[g].pc = "sanity" /\ hnd'[g] # hnd[g] => hnd'[g].pc = "insert"
          /\ hnd[g].pc = "insert" /\ hnd'[g] # hnd[g] => hnd'[g].pc = "delete"
          /\ hnd[g].pc = "delete" /\ hnd'[g] # hnd[g] =>
                (/\ hashS(hnd[g].bis[1]) \notin DOMAIN blocks'
                 /\ hnd'[g].pc = "expire")]_vars

\* The first header of the batch is stored already: BlockHeadersInsert
\* returns Duplicate.
IsDuplicate(g) == hnd[g].hdrs[1].Hash \in DOMAIN pool.BlockHeadersDB

\* C27: handleHeaders goes on to write getheaders, to the sending peer and
\* locating the last header of the batch, exactly when BlockHeadersInsert
\* stored the batch; on Duplicate, as on any other error, it closes the
\* peer and returns with no getheaders written; getheaders is written by
\* no other step.
C27_GetHeadersIffInserted ==
    [][/\ \A g \in Handlers :
            /\ (hnd[g].pc = "insert" /\ hnd'[g] # hnd[g]) =>
                  /\ IsDuplicate(g) =>
                        (/\ conn'[hnd[g].peer] = "closed"
                         /\ hnd'[g] = Idle
                         /\ pool' = pool)
                  /\ hnd'[g].pc = "getheaders" <=>
                        (~IsDuplicate(g) /\ AllStored(pool', hnd[g].hdrs))
                  /\ hnd'[g].pc = "getheaders" =>
                        (/\ conn' = conn
                         /\ hnd'[g].peer = hnd[g].peer
                         /\ hnd'[g].hdrs = hnd[g].hdrs)
                  /\ hnd'[g].pc # "getheaders" => hnd'[g] = Idle
                  /\ lastOp' = lastOp
            /\ (hnd[g].pc = "getheaders" /\ hnd'[g] # hnd[g]) =>
                  /\ lastOp' = GetHeaders(hnd[g].peer,
                                          hnd[g].hdrs[Len(hnd[g].hdrs)].Hash)
                  /\ hnd'[g] = Idle
       /\ (lastOp'.op = "getheaders" /\ lastOp' # lastOp) =>
             \E g \in Handlers :
                 hnd[g].pc = "getheaders" /\ hnd'[g] # hnd[g]]_vars

C27_Witness ==
    /\ lastOp.op = "getheaders"
    /\ lastOp.hash = 2
    /\ faults = 0
    /\ \E p \in Peers : p # lastOp.addr /\ conn[p] = "closed"

\* C28: a headers message whose first header's PrevBlock has no
\* BlockHeaders record is dropped at the lookup: the handler returns, no
\* namespace changes, no getheaders is written and no session is closed.
C28_NoParentDropped ==
    [][\A g \in Handlers, p \in Peers, msg \in HeaderMsgs :
          (/\ Reading(p)
           /\ hnd[g] = Idle
           /\ Len(msg) > 0
           /\ PrevBlock(msg[1]) \notin DOMAIN pool.BlockHeadersDB
           /\ HeadersLookup(g, p, msg)) =>
              (/\ hnd' = hnd
               /\ pool' = pool
               /\ conn' = conn
               /\ lastOp' = Dropped(msg[1]))]_vars

C28_Witness ==
    /\ lastOp.op = "drop"
    /\ PrevBlock(lastOp.hash) \notin DOMAIN pool.BlockHeadersDB
    /\ \A p \in Peers : conn[p] = "open"
    /\ pool # BootStore

\* C30 as stated: when randPeerWrite returns errCacheFull or errNoPeers for
\* the first hash of a list, downloadBlocks adds no later hash of the list
\* to the pending-blocks map and requests none.
C30_StopsAtCacheFullOrNoPeers ==
    \A bis \in [1..2 -> Announced], ch \in [1..2 -> Peers \cup {0}] :
        LET first == randPeerWrite(blocks, hashS(bis[1]), ch[1])
            r == downloadBlocks(blocks, bis, ch)
        IN (/\ bis[1] # bis[2]
            /\ r.valid
            /\ first.err \in {"cache full", "no peers"}) =>
               (r.blocks = blocks /\ r.sent = {})

\* C33: a record of BlockHeaders, once stored, stays as it is: every step
\* leaves each stored hash with the same height and the same raw header.
C33_HeaderNeverRewritten ==
    [][\A h \in DOMAIN pool.BlockHeadersDB :
          /\ h \in DOMAIN pool'.BlockHeadersDB
          /\ pool'.BlockHeadersDB[h] = pool.BlockHeadersDB[h]]_vars

\* A headers batch was refused as a duplicate and a block was stored, with
\* the headers of the whole tree in the store.
C33_Witness ==
    /\ DOMAIN pool.BlockHeadersDB = Hashes
    /\ lastOp.op = "BlockHeadersInsert"
    /\ lastOp.err = "Duplicate"
    /\ Len(lastOp.hdrs) = 2
    /\ pool.BlocksDB # {GenesisHash}

\* C35 as stated: the height of the tip BlockHeadersBest returns never
\* decreases, and after every step it is the greatest height of a stored
\* BlockHeaders record.
C35_BestTipIsHighest ==
    [][LET was == BlockHeadersBest(pool)
           is == BlockHeadersBest(pool')
       IN /\ was # <<>> => (is # <<>> /\ is[1].Height >= was[1].Height)
          /\ is # <<>> =>
                \A h \in DOMAIN pool'.BlockHeadersDB :
                    pool'.BlockHeadersDB[h].Height <= is[1].Height]_vars

\* C34 as stated: a caller that is back from insertGenesis, on the path of
\* the set latch as on the insert path, no longer holds s.mtx.
C34_InsertGenesisUnlocks ==
    \A c \in Callers : bpc[c] \in {"start", "ready", "panic"} => mtx # c

\* C39 as stated: when insertGenesis has failed to persist the genesis
\* header and no caller is inside it, the latch is not set and no caller
\* has been given a genesis header the store does not hold.
C39_LatchClearedOnFailure ==
    (/\ \E c \in Callers : bres[c].err = "error"
     /\ GenesisHash \notin DOMAIN pool.BlockHeadersDB
     /\ \A c \in Callers : bpc[c] \notin {"ig_header", "ig_block"}) =>
        (/\ ~insertedGenesis
         /\ \A c \in Callers : bres[c].bhs = <<>>)

\* C37 as stated: when the write of getdata fails in randPeerWrite, the
\* hash is not left in the pending-blocks map.
C37_FailedWriteNotPending ==
    \A hash \in Announced, p \in Peers :
        LET r == randPeerWrite(blocks, hashS(hash), p)
        IN (/\ hashS(hash) \notin DOMAIN blocks
            /\ p \in Pick(blocks, hashS(hash))
            /\ r.err = "write error") =>
               hashS(hash) \notin DOMAIN r.blocks

\* C38 as stated: getdata for a hash is written only while the hash is not
\* in the pending-blocks map.
C38_OneRequestPerHash ==
    [][\A g \in Handlers :
          (/\ hnd[g].pc = "rpw_put"
           /\ hnd'[g] # hnd[g]) =>
              hashS(Head(hnd[g].bis)) \notin DOMAIN blocks]_vars

\* C36 as stated: every entry of the pending-blocks map names a peer that
\* is in s.peers.
C36_PendingOwnerActive ==
    \A h \in DOMAIN blocks : blocks[h].peer \in peers

\* C40 as stated: no two live sessions have the same address, every live
\* session has its address in s.peers, and there are at most
\* defaultPeersWanted live sessions.
C40_OneSessionPerAddress ==
    /\ \A a \in Addresses : sess[a] <= 1 /\ (sess[a] > 0 => a \in peers)
    /\ Live <= defaultPeersWanted

\* C31: s.peers never holds more than defaultPeersWanted addresses; a pass
\* of the loop that finds fewer runs the connect loop once for every
\* address short, each iteration putting the next seed into s.peers and
\* starting its session, and goes to the select when none is left.
C31_AtMostWantedPeers ==
    [][/\ Cardinality(peers') <= defaultPeersWanted
       /\ (pm.pc = "loop" /\ pm' # pm) =>
             IF Cardinality(peers) < defaultPeersWanted
             THEN /\ pm'.pc = "connect"
                  /\ pm'.i = defaultPeersWanted - Cardinality(peers)
                  /\ pm'.x = pm.x
             ELSE pm'.pc = "select"
       /\ (pm.pc = "connect" /\ pm' # pm) =>
             /\ peers' = peers \cup {pm.seeds[pm.x]}
             /\ sess'[pm.seeds[pm.x]] = sess[pm.seeds[pm.x]] + 1
             /\ pm'.i = pm.i - 1
             /\ pm'.x = IF pm.x < Len(pm.seeds) THEN pm.x + 1 ELSE 1
             /\ pm'.pc = IF pm'.i = 0 THEN "select" ELSE "connect"
       /\ (pm.pc = "connect" /\ pm' = pm) => peers' = peers]_vars

\* The connect loop is at its second iteration with one address in
\* s.peers, after an address was deleted and the seeds were fetched again.
C31_Witness ==
    /\ pm.pc = "connect"
    /\ pm.i = 1
    /\ Cardinality(peers) = 1
    /\ Live = 2
    /\ peerC # <<>>

\* C32 as stated, for the notification: a session that ends leaves its
\* address on peerC for the peer manager.
C32_ExitNotificationKept ==
    [][\A a \in Addresses :
          sess'[a] < sess[a] => peerC' = Append(peerC, a)]_vars

====
